---- MODULE Spec2Model ----
(***************************************************************************)
(* Bank reconciliation engine of accountant-skill/scripts/reconcile_bank.py *)
(* as a state machine: main() loads the cash ledger and the bank statement, *)
(* cross-checks the opening balances, runs the two matching passes, splits  *)
(* the unmatched rows by sign, computes the adjusted balances and writes    *)
(* the workbook.                                                            *)
(*                                                                          *)
(* Numbers.  Money is a fixed-point integer counting thousandths of the     *)
(* currency unit ("mills"), so that round(x, 2) is a real conversion: it    *)
(* rounds to the nearest multiple of MillsPerCent.  A blank or non-numeric  *)
(* cell is the float NaN; it is the integer NaN below, which lies outside   *)
(* every amount the model produces.  Dates are integers counting ticks of   *)
(* 1/TicksPerDay day, so that Timedelta.days (a floor) is a real            *)
(* conversion too.  DataFrame positions are 1-based here (0-based in        *)
(* pandas).                                                                 *)
(***************************************************************************)
EXTENDS Integers, Sequences, FiniteSets, TLC

----------------------------------------------------------------------------
(* Program constants *)

DATE_PROXIMITY_DAYS == 3

MillsPerCent == 10

TicksPerDay == 2

NaN == 0 - 999999

----------------------------------------------------------------------------
(* Bounds of the model *)

MaxRows == 2

----------------------------------------------------------------------------
(* Float helpers *)

IsNaN(x) == x = NaN

\* x + y on floats: NaN is absorbing
FAdd(x, y) == IF IsNaN(x) \/ IsNaN(y) THEN NaN ELSE x + y

\* x - y on floats
FSub(x, y) == IF IsNaN(x) \/ IsNaN(y) THEN NaN ELSE x - y

\* Python's x == y on floats: NaN equals nothing, itself included
FEq(x, y) == ~IsNaN(x) /\ ~IsNaN(y) /\ x = y

\* round(x, 2): nearest cent, a tie going to the even cent; round(nan, 2) is nan
Round2(x) ==
    IF IsNaN(x) THEN NaN
    ELSE LET q == x \div MillsPerCent
             r == x % MillsPerCent
         IN  IF 2 * r < MillsPerCent THEN q * MillsPerCent
             ELSE IF 2 * r > MillsPerCent THEN (q + 1) * MillsPerCent
             ELSE IF q % 2 = 0 THEN q * MillsPerCent
             ELSE (q + 1) * MillsPerCent

\* pd.to_numeric(col, errors='coerce').fillna(0): a blank cell becomes 0
ToNumericFill0(cell) == IF IsNaN(cell) THEN 0 ELSE cell

\* pd.to_numeric(col, errors='coerce'): a blank cell stays NaN
ToNumeric(cell) == cell

\* abs(x)
Abs(x) == IF x < 0 THEN 0 - x ELSE x

\* abs(x) on floats
FAbs(x) == IF IsNaN(x) THEN NaN ELSE Abs(x)

\* x > 0 on floats: False for NaN
FPositive(x) == ~IsNaN(x) /\ x > 0

\* x < 0 on floats: False for NaN
FNegative(x) == ~IsNaN(x) /\ x < 0

\* df['_amount'].sum(): the NaN values are skipped
RECURSIVE SumAmount(_)
SumAmount(df) ==
    IF df = << >> THEN 0
    ELSE (IF IsNaN(Head(df)._amount) THEN 0 ELSE Head(df)._amount) + SumAmount(Tail(df))

----------------------------------------------------------------------------
(* Strings: str.strip(), str.upper(), str.lower() and the `in` of two      *)
(* strings, character by character.                                        *)

\* the capital of each small letter
Capital ==
    "a" :> "A" @@ "b" :> "B" @@ "c" :> "C" @@ "d" :> "D" @@ "e" :> "E" @@ "f" :> "F" @@
    "g" :> "G" @@ "h" :> "H" @@ "i" :> "I" @@ "j" :> "J" @@ "k" :> "K" @@ "l" :> "L" @@
    "m" :> "M" @@ "n" :> "N" @@ "o" :> "O" @@ "p" :> "P" @@ "q" :> "Q" @@ "r" :> "R" @@
    "s" :> "S" @@ "t" :> "T" @@ "u" :> "U" @@ "v" :> "V" @@ "w" :> "W" @@ "x" :> "X" @@
    "y" :> "Y" @@ "z" :> "Z"

\* the small letter of each capital
Small ==
    "A" :> "a" @@ "B" :> "b" @@ "C" :> "c" @@ "D" :> "d" @@ "E" :> "e" @@ "F" :> "f" @@
    "G" :> "g" @@ "H" :> "h" @@ "I" :> "i" @@ "J" :> "j" @@ "K" :> "k" @@ "L" :> "l" @@
    "M" :> "m" @@ "N" :> "n" @@ "O" :> "o" @@ "P" :> "p" @@ "Q" :> "q" @@ "R" :> "r" @@
    "S" :> "s" @@ "T" :> "t" @@ "U" :> "u" @@ "V" :> "v" @@ "W" :> "w" @@ "X" :> "x" @@
    "Y" :> "y" @@ "Z" :> "z"

\* s[i - 1]: the character at position i, a string of length 1
Char(s, i) == SubSeq(s, i, i)

\* Series.str.strip(): the blanks at both ends are dropped
RECURSIVE Strip(_)
Strip(s) ==
    IF Len(s) = 0 THEN s
    ELSE IF Char(s, 1) = " " THEN Strip(SubSeq(s, 2, Len(s)))
    ELSE IF Char(s, Len(s)) = " " THEN Strip(SubSeq(s, 1, Len(s) - 1))
    ELSE s

\* Series.str.upper()
RECURSIVE Upper(_)
Upper(s) ==
    IF Len(s) = 0 THEN s
    ELSE LET c == Char(s, Len(s))
         IN  Upper(SubSeq(s, 1, Len(s) - 1))
             \o (IF c \in DOMAIN Capital THEN Capital[c] ELSE c)

\* str.lower()
RECURSIVE Lower(_)
Lower(s) ==
    IF Len(s) = 0 THEN s
    ELSE LET c == Char(s, Len(s))
         IN  Lower(SubSeq(s, 1, Len(s) - 1))
             \o (IF c \in DOMAIN Small THEN Small[c] ELSE c)

\* In for the whole string only: keyword == desc
In_WholeString(keyword, desc) == keyword = desc

\* keyword in desc: keyword is a substring of desc
In(keyword, desc) ==
    \E i \in 1..(Len(desc) - Len(keyword) + 1) :
        SubSeq(desc, i, i + Len(keyword) - 1) = keyword

\* str(list) of a list of strings: ['a', 'b']
RECURSIVE Items(_)
Items(list) ==
    IF Len(list) = 0 THEN ""
    ELSE IF Len(list) = 1 THEN "'" \o list[1] \o "'"
    ELSE Items(SubSeq(list, 1, Len(list) - 1)) \o ", '" \o list[Len(list)] \o "'"

ListStr(list) == "[" \o Items(list) \o "]"

----------------------------------------------------------------------------
(* Python's None: the value of a local of main() that is not assigned yet,  *)
(* and of the three results a loader returns next to an error.              *)
None == 0 - 888888

VARIABLES
    cash_ledger_xlsx,      \* data_dir/cash_ledger.xlsx: [path, exists, readable, columns, data]
    bank_statement_xlsx,   \* data_dir/bank_statement.xlsx, likewise
    period_start,          \* sys.argv[2], a calendar day (midnight), in ticks
    period_end,            \* sys.argv[3], a calendar day (midnight), in ticks
    pc,                    \* position of main()
    book_df, book_opening, book_closing,
    bank_df, bank_opening, bank_closing,
    exceptions,
    bi,                    \* position of the outer loop of the running pass
    book_matched, bank_matched, matched_pairs,
    book_only, bank_only,
    deposits_in_transit, outstanding_cheques, bank_credits, bank_debits,
    recon,
    adjusting_entries,
    stdout,                \* the ERROR lines main() printed
    output_dir,            \* "absent" until main() made the directory of output_file
    wb,                    \* the workbook main() builds: its sheets and checks
    output_file,           \* "absent" until save_workbook() wrote it
    exit_status            \* None while main() runs

inputs == <<cash_ledger_xlsx, bank_statement_xlsx, period_start, period_end>>

loaded == <<book_df, book_opening, book_closing, bank_df, bank_opening, bank_closing>>

matching == <<bi, book_matched, bank_matched, matched_pairs, book_only, bank_only>>

buckets == <<deposits_in_transit, outstanding_cheques, bank_credits, bank_debits>>

report == <<adjusting_entries, output_dir, wb>>

vars == <<inputs, pc, loaded, exceptions, matching, buckets, recon, stdout, report,
          output_file, exit_status>>

----------------------------------------------------------------------------
(* utils/excel_reader.py.  A file is [path, exists, readable, columns,     *)
(* data]: columns are the headers as written in the sheet, data the rows,  *)
(* each cell under the canonical name its header resolves to.              *)

\* normalize_column: str(col_name).strip().lower()
normalize_column(col_name) == Lower(Strip(col_name))

\* COLUMN_ALIASES, the entries of the columns the two loaders ask for
COLUMN_ALIASES(canon_lower) ==
    CASE canon_lower = "date" ->
            <<"date", "trans date", "transaction date", "entry date", "post date">>
      [] canon_lower = "reference" ->
            <<"ref", "ref no", "ref.", "reference no", "voucher no", "jv no",
              "invoice no", "receipt no", "payment no">>
      [] canon_lower = "description" ->
            <<"desc", "narration", "narrative", "memo", "particulars", "details">>
      [] canon_lower = "debit" -> <<"debit", "dr", "debit amount", "debit_amount">>
      [] canon_lower = "credit" -> <<"credit", "cr", "credit amount", "credit_amount">>
      [] canon_lower = "balance" -> <<"balance", "running balance", "bal">>
      [] canon_lower = "bank account" ->
            <<"bank account", "bank_account", "bank", "bank name">>
      [] OTHER -> << >>

\* the canonical column is a header, or one of its aliases is
Resolved(normalized_headers, canon_lower) ==
    \/ canon_lower \in normalized_headers
    \/ \E k \in 1..Len(COLUMN_ALIASES(canon_lower)) :
          COLUMN_ALIASES(canon_lower)[k] \in normalized_headers

\* map_columns: the required columns that no header resolves to, directly or
\* by an alias, in the order of required_columns
map_columns(columns, required_columns) ==
    LET normalized_headers == {normalize_column(columns[i]) : i \in 1..Len(columns)}
    IN  [missing_required |->
            SelectSeq(required_columns,
                      LAMBDA canonical : ~Resolved(normalized_headers, Lower(canonical)))]

\* read_xlsx with an error that does not list the columns of the file
read_xlsx_NoAvailable(filepath, required_columns) ==
    IF ~filepath.exists
    THEN [data |-> None, error |-> "File not found: " \o filepath.path]
    ELSE IF ~filepath.readable
    THEN [data |-> None, error |-> "Error reading " \o filepath.path]
    ELSE LET missing == map_columns(filepath.columns, required_columns).missing_required
         IN  IF missing # << >>
             THEN [data |-> None,
                   error |-> "Missing required columns: " \o ListStr(missing)]
             ELSE [data |-> filepath.data, error |-> "None"]

\* read_xlsx: the rows, or the error
read_xlsx(filepath, required_columns) ==
    IF ~filepath.exists
    THEN [data |-> None, error |-> "File not found: " \o filepath.path]
    ELSE IF ~filepath.readable
    THEN [data |-> None, error |-> "Error reading " \o filepath.path]
    ELSE LET missing == map_columns(filepath.columns, required_columns).missing_required
         IN  IF missing # << >>
             THEN [data |-> None,
                   error |-> "Missing required columns: " \o ListStr(missing)
                             \o ". Available columns: " \o ListStr(filepath.columns)]
             ELSE [data |-> filepath.data, error |-> "None"]

----------------------------------------------------------------------------
(* 1. DATA LOADING *)

\* PrePeriod with the bound included: Date <= period_start
PrePeriod_Inclusive(df, start) == SelectSeq(df, LAMBDA r : r.Date <= start)

\* df[df['Date'] < pd.Timestamp(period_start)]
PrePeriod(df, start) == SelectSeq(df, LAMBDA r : r.Date < start)

\* AtEnd with the bound excluded: Date < period_end
AtEnd_Exclusive(df, end) == SelectSeq(df, LAMBDA r : r.Date < end)

\* df[df['Date'] <= pd.Timestamp(period_end)]
AtEnd(df, end) == SelectSeq(df, LAMBDA r : r.Date <= end)

\* filter_by_period with the first bound excluded
filter_by_period_StartExclusive(df, start_date, end_date) ==
    SelectSeq(df, LAMBDA r : r.Date > start_date /\ r.Date <= end_date)

\* utils/excel_reader.py filter_by_period
filter_by_period(df, start_date, end_date) ==
    SelectSeq(df, LAMBDA r : r.Date >= start_date /\ r.Date <= end_date)

\* period_df[period_df['Reference'] != 'OB']
DropOpeningMarker(df) == SelectSeq(df, LAMBDA r : r.Reference # "OB")

\* the column coercions of load_cash_ledger
CoerceColumns(data) ==
    [i \in 1..Len(data) |->
        [Date        |-> data[i].Date,
         Reference   |-> Strip(data[i].Reference),
         Description |-> data[i].Description,
         Debit       |-> ToNumericFill0(data[i].Debit),
         Credit      |-> ToNumericFill0(data[i].Credit),
         Balance     |-> ToNumeric(data[i].Balance)]]

\* df.get(column, pd.Series(dtype=float)): the frame has the column when a
\* header of the sheet resolves to it
HasColumn(columns, canonical) ==
    Resolved({normalize_column(columns[i]) : i \in 1..Len(columns)}, Lower(canonical))

\* the column coercions of load_bank_statement: Debit and Credit are optional,
\* and the empty Series that stands for an absent column is aligned to the
\* rows of the frame when it is assigned, which leaves NaN in every row
CoerceStatementColumns(data, columns) ==
    LET has_debit == HasColumn(columns, "Debit")
        has_credit == HasColumn(columns, "Credit")
    IN  [i \in 1..Len(data) |->
            [Date        |-> data[i].Date,
             Reference   |-> Strip(data[i].Reference),
             Description |-> data[i].Description,
             Debit       |-> IF has_debit THEN ToNumericFill0(data[i].Debit) ELSE NaN,
             Credit      |-> IF has_credit THEN ToNumericFill0(data[i].Credit) ELSE NaN,
             Balance     |-> ToNumeric(data[i].Balance)]]

\* opening balance: Balance of the last row before period_start, else 0.0
OpeningBalance(df, start) ==
    LET pre_period == PrePeriod(df, start)
    IN  IF pre_period = << >> THEN 0 ELSE pre_period[Len(pre_period)].Balance

\* closing balance: Balance of the last row at or before period_end
ClosingBalance(df, end, opening_balance) ==
    LET at_end == AtEnd(df, end)
    IN  IF at_end # << >> THEN at_end[Len(at_end)].Balance ELSE opening_balance

\* BookAmount with the columns swapped: Credit - Debit
BookAmount_CreditMinusDebit(r) == r.Credit - r.Debit

\* cash ledger: Debit = money IN, Credit = money OUT
BookAmount(r) == r.Debit - r.Credit

\* BankAmount with the columns swapped: Debit - Credit
BankAmount_DebitMinusCredit(r) == FSub(r.Debit, r.Credit)

\* bank statement: Debit = withdrawal (OUT), Credit = deposit (IN)
BankAmount(r) == FSub(r.Credit, r.Debit)

\* period_df['Debit'] - period_df['Credit'], the column
BookAmounts(df) == [i \in 1..Len(df) |-> BookAmount(df[i])]

\* period_df['Credit'] - period_df['Debit'], the column
BankAmounts(df) == [i \in 1..Len(df) |-> BankAmount(df[i])]

\* period_df['_amount'] = amount; period_df.reset_index(drop=True): the frame
\* with the new column, its rows labelled by their position
WithAmount(period_df, amount) ==
    [i \in 1..Len(period_df) |->
        [index       |-> i,
         Date        |-> period_df[i].Date,
         Reference   |-> period_df[i].Reference,
         Description |-> period_df[i].Description,
         Debit       |-> period_df[i].Debit,
         Credit      |-> period_df[i].Credit,
         Balance     |-> period_df[i].Balance,
         _amount     |-> amount[i]]]

load_cash_ledger(path, start, end) ==
    LET result == read_xlsx(path, <<"Date", "Reference", "Description",
                                    "Debit", "Credit", "Balance">>)
    IN
    IF result.error # "None"
    THEN [period_df |-> None, opening_balance |-> None,
          closing_balance |-> None, error |-> result.error]
    ELSE LET df == CoerceColumns(result.data)
             opening_balance == OpeningBalance(df, start)
             period_df == DropOpeningMarker(filter_by_period(df, start, end))
         IN  [period_df       |-> WithAmount(period_df, BookAmounts(period_df)),
              opening_balance |-> opening_balance,
              closing_balance |-> ClosingBalance(df, end, opening_balance),
              error           |-> "None"]

load_bank_statement(path, start, end) ==
    LET result == read_xlsx(path, <<"Date", "Reference", "Description", "Balance">>)
    IN
    IF result.error # "None"
    THEN [period_df |-> None, opening_balance |-> None,
          closing_balance |-> None, error |-> result.error]
    ELSE LET df == CoerceStatementColumns(result.data, path.columns)
             opening_balance == OpeningBalance(df, start)
             period_df == DropOpeningMarker(filter_by_period(df, start, end))
         IN  [period_df       |-> WithAmount(period_df, BankAmounts(period_df)),
              opening_balance |-> opening_balance,
              closing_balance |-> ClosingBalance(df, end, opening_balance),
              error           |-> "None"]

----------------------------------------------------------------------------
(* 2. MATCHING *)

\* (b_date - s_date).days: whole days of a Timedelta, rounded down
Days(timedelta) == timedelta \div TicksPerDay

\* First that takes the largest label: the last one a scan in order meets
First_Largest(S) == CHOOSE x \in S : \A y \in S : x >= y

\* the smallest label of a non-empty set: the first one a scan in order meets
First(S) == CHOOSE x \in S : \A y \in S : x <= y

\* ExactCandidates without the amount test: pass 1 by reference alone
ExactCandidates_ReferenceOnly(bookdf, bankdf, b, matched) ==
    {si \in 1..Len(bankdf) :
        /\ si \notin matched
        /\ Upper(bookdf[b].Reference) = Upper(bankdf[si].Reference)}

\* ExactCandidates that compares the absolute rounded amounts
ExactCandidates_AbsAmount(bookdf, bankdf, b, matched) ==
    {si \in 1..Len(bankdf) :
        /\ si \notin matched
        /\ Upper(bookdf[b].Reference) = Upper(bankdf[si].Reference)
        /\ FEq(FAbs(Round2(bookdf[b]._amount)), FAbs(Round2(bankdf[si]._amount)))}

\* ExactCandidates that compares the references as written, not upper-cased
ExactCandidates_CaseSensitive(bookdf, bankdf, b, matched) ==
    {si \in 1..Len(bankdf) :
        /\ si \notin matched
        /\ bookdf[b].Reference = bankdf[si].Reference
        /\ FEq(Round2(bookdf[b]._amount), Round2(bankdf[si]._amount))}

\* pass 1, inner loop: the statement rows that are free and carry the ledger
\* row's upper-cased reference and rounded amount
ExactCandidates(bookdf, bankdf, b, matched) ==
    {si \in 1..Len(bankdf) :
        /\ si \notin matched
        /\ Upper(bookdf[b].Reference) = Upper(bankdf[si].Reference)
        /\ FEq(Round2(bookdf[b]._amount), Round2(bankdf[si]._amount))}

\* ProbableCandidates without the test `si in bank_matched: continue`
ProbableCandidates_TakenRowsToo(bookdf, bankdf, b, matched) ==
    {si \in 1..Len(bankdf) :
        /\ FEq(Round2(bookdf[b]._amount), Round2(bankdf[si]._amount))
        /\ Abs(Days(bookdf[b].Date - bankdf[si].Date)) <= DATE_PROXIMITY_DAYS}

\* ProbableCandidates with the window exclusive: days_diff < DATE_PROXIMITY_DAYS
ProbableCandidates_WindowExclusive(bookdf, bankdf, b, matched) ==
    {si \in 1..Len(bankdf) :
        /\ si \notin matched
        /\ FEq(Round2(bookdf[b]._amount), Round2(bankdf[si]._amount))
        /\ Abs(Days(bookdf[b].Date - bankdf[si].Date)) < DATE_PROXIMITY_DAYS}

\* ProbableCandidates without abs(): days_diff = (b_date - s_date).days
ProbableCandidates_NoAbs(bookdf, bankdf, b, matched) ==
    {si \in 1..Len(bankdf) :
        /\ si \notin matched
        /\ FEq(Round2(bookdf[b]._amount), Round2(bankdf[si]._amount))
        /\ Days(bookdf[b].Date - bankdf[si].Date) <= DATE_PROXIMITY_DAYS}

\* ProbableCandidates that keeps, of the rows in the window, those dated
\* closest to the ledger row
ProbableCandidates_Closest(bookdf, bankdf, b, matched) ==
    LET inwindow == {si \in 1..Len(bankdf) :
                        /\ si \notin matched
                        /\ FEq(Round2(bookdf[b]._amount), Round2(bankdf[si]._amount))
                        /\ Abs(Days(bookdf[b].Date - bankdf[si].Date)) <= DATE_PROXIMITY_DAYS}
    IN  {si \in inwindow :
            \A t \in inwindow : Abs(Days(bookdf[b].Date - bankdf[si].Date))
                                   <= Abs(Days(bookdf[b].Date - bankdf[t].Date))}

\* pass 2, inner loop: the statement rows that are free, carry the ledger row's
\* rounded amount and are dated within DATE_PROXIMITY_DAYS of it
ProbableCandidates(bookdf, bankdf, b, matched) ==
    {si \in 1..Len(bankdf) :
        /\ si \notin matched
        /\ FEq(Round2(bookdf[b]._amount), Round2(bankdf[si]._amount))
        /\ Abs(Days(bookdf[b].Date - bankdf[si].Date)) <= DATE_PROXIMITY_DAYS}

\* Unmatched that keeps every row of the frame
Unmatched_EveryRow(df, matched) == df

\* book_df[~book_df.index.isin(book_matched)]
Unmatched(df, matched) == SelectSeq(df, LAMBDA r : r.index \notin matched)

\* Positive with the zero amounts let in: _amount >= 0
Positive_OrZero(df) == SelectSeq(df, LAMBDA r : r._amount >= 0)

\* classify_book_only / classify_bank_only: the rows with _amount > 0 ...
Positive(df) == SelectSeq(df, LAMBDA r : FPositive(r._amount))

\* ... and the rows with _amount < 0
Negative(df) == SelectSeq(df, LAMBDA r : FNegative(r._amount))

classify_book_only(book_only_df) ==
    [deposits_in_transit |-> Positive(book_only_df),
     outstanding_cheques |-> Negative(book_only_df)]

\* classify_bank_only with the two frames swapped
classify_bank_only_Swapped(bank_only_df) ==
    [bank_credits |-> Negative(bank_only_df),
     bank_debits  |-> Positive(bank_only_df)]

classify_bank_only(bank_only_df) ==
    [bank_credits |-> Positive(bank_only_df),
     bank_debits  |-> Negative(bank_only_df)]

----------------------------------------------------------------------------
(* 3. ADJUSTING ENTRIES *)

BANK_ACCOUNT_CODE == "1020"

INTEREST_INCOME_CODE == "4110"

AR_CODE == "1100"

BANK_CHARGES_CODE == "5920"

INSURANCE_CODE == "5700"

COMMS_CODE == "5220"

LOAN_CODE == "2100"

MISC_EXPENSE_CODE == "5900"

OTHER_INCOME_CODE == "4199"

\* Suggestion without its credit amount
Suggestion_NoCredit(category, dr_account, dr_code, cr_account, cr_code, abs_amt) ==
    [category   |-> category,
     dr_account |-> dr_account, dr_code |-> dr_code,
     cr_account |-> cr_account, cr_code |-> cr_code,
     dr_amount  |-> abs_amt, cr_amount |-> 0]

\* the dict categorize_bank_item returns (the dash of four category names is
\* the hyphen here)
Suggestion(category, dr_account, dr_code, cr_account, cr_code, abs_amt) ==
    [category   |-> category,
     dr_account |-> dr_account, dr_code |-> dr_code,
     cr_account |-> cr_account, cr_code |-> cr_code,
     dr_amount  |-> abs_amt, cr_amount |-> abs_amt]

\* categorize_bank_item with the insurance rule tested before the charges rule
categorize_bank_item_InsuranceFirst(description, amount) ==
    LET desc == Lower(description)
        abs_amt == FAbs(amount)
    IN  IF FPositive(amount)
        THEN IF In("interest", desc)
             THEN Suggestion("Bank Interest Earned",
                             "Cash at Bank", BANK_ACCOUNT_CODE,
                             "Interest Income", INTEREST_INCOME_CODE, abs_amt)
             ELSE IF In("payment", desc) \/ In("collection", desc) \/ In("transfer in", desc)
             THEN Suggestion("Direct Credit - Accounts Receivable",
                             "Cash at Bank", BANK_ACCOUNT_CODE,
                             "Accounts Receivable", AR_CODE, abs_amt)
             ELSE Suggestion("Bank Credit - Investigate",
                             "Cash at Bank", BANK_ACCOUNT_CODE,
                             "Other Income", OTHER_INCOME_CODE, abs_amt)
        ELSE IF In("insurance", desc)
             THEN Suggestion("Insurance - Auto Debit",
                             "Insurance Expense", INSURANCE_CODE,
                             "Cash at Bank", BANK_ACCOUNT_CODE, abs_amt)
             ELSE IF In("charge", desc) \/ In("fee", desc) \/ In("service", desc)
             THEN Suggestion("Bank Charges & Fees",
                             "Bank Charges & Fees", BANK_CHARGES_CODE,
                             "Cash at Bank", BANK_ACCOUNT_CODE, abs_amt)
             ELSE IF In("subscription", desc) \/ In("software", desc) \/ In("saas", desc)
             THEN Suggestion("Software / Subscription",
                             "Telephone & Internet", COMMS_CODE,
                             "Cash at Bank", BANK_ACCOUNT_CODE, abs_amt)
             ELSE IF In("loan", desc) \/ In("repayment", desc) \/ In("instalment", desc)
             THEN Suggestion("Loan Repayment",
                             "Long-term Loans", LOAN_CODE,
                             "Cash at Bank", BANK_ACCOUNT_CODE, abs_amt)
             ELSE IF In("dishonour", desc) \/ In("nsf", desc) \/ In("returned", desc)
                     \/ In("bounce", desc)
             THEN Suggestion("Dishonoured Cheque",
                             "Accounts Receivable", AR_CODE,
                             "Cash at Bank", BANK_ACCOUNT_CODE, abs_amt)
             ELSE Suggestion("Direct Debit - Investigate",
                             "Non-Operating Expense", MISC_EXPENSE_CODE,
                             "Cash at Bank", BANK_ACCOUNT_CODE, abs_amt)

categorize_bank_item(description, amount) ==
    LET desc == Lower(description)
        abs_amt == FAbs(amount)
    IN  IF FPositive(amount)
        THEN IF In("interest", desc)
             THEN Suggestion("Bank Interest Earned",
                             "Cash at Bank", BANK_ACCOUNT_CODE,
                             "Interest Income", INTEREST_INCOME_CODE, abs_amt)
             ELSE IF In("payment", desc) \/ In("collection", desc) \/ In("transfer in", desc)
             THEN Suggestion("Direct Credit - Accounts Receivable",
                             "Cash at Bank", BANK_ACCOUNT_CODE,
                             "Accounts Receivable", AR_CODE, abs_amt)
             ELSE Suggestion("Bank Credit - Investigate",
                             "Cash at Bank", BANK_ACCOUNT_CODE,
                             "Other Income", OTHER_INCOME_CODE, abs_amt)
        ELSE IF In("charge", desc) \/ In("fee", desc) \/ In("service", desc)
             THEN Suggestion("Bank Charges & Fees",
                             "Bank Charges & Fees", BANK_CHARGES_CODE,
                             "Cash at Bank", BANK_ACCOUNT_CODE, abs_amt)
             ELSE IF In("insurance", desc)
             THEN Suggestion("Insurance - Auto Debit",
                             "Insurance Expense", INSURANCE_CODE,
                             "Cash at Bank", BANK_ACCOUNT_CODE, abs_amt)
             ELSE IF In("subscription", desc) \/ In("software", desc) \/ In("saas", desc)
             THEN Suggestion("Software / Subscription",
                             "Telephone & Internet", COMMS_CODE,
                             "Cash at Bank", BANK_ACCOUNT_CODE, abs_amt)
             ELSE IF In("loan", desc) \/ In("repayment", desc) \/ In("instalment", desc)
             THEN Suggestion("Loan Repayment",
                             "Long-term Loans", LOAN_CODE,
                             "Cash at Bank", BANK_ACCOUNT_CODE, abs_amt)
             ELSE IF In("dishonour", desc) \/ In("nsf", desc) \/ In("returned", desc)
                     \/ In("bounce", desc)
             THEN Suggestion("Dishonoured Cheque",
                             "Accounts Receivable", AR_CODE,
                             "Cash at Bank", BANK_ACCOUNT_CODE, abs_amt)
             ELSE Suggestion("Direct Debit - Investigate",
                             "Non-Operating Expense", MISC_EXPENSE_CODE,
                             "Cash at Bank", BANK_ACCOUNT_CODE, abs_amt)

\* one turn of a loop of build_adjusting_entries: the entry of a row
Entry(row) ==
    LET cat == categorize_bank_item(row.Description, row._amount)
    IN  [category    |-> cat.category,
         dr_account  |-> cat.dr_account, dr_code |-> cat.dr_code,
         cr_account  |-> cat.cr_account, cr_code |-> cat.cr_code,
         dr_amount   |-> cat.dr_amount,  cr_amount |-> cat.cr_amount,
         date        |-> row.Date,
         reference   |-> row.Reference,
         description |-> row.Description]

\* the entries of the rows of a frame, in its order
Entries(df) == [k \in 1..Len(df) |-> Entry(df[k])]

\* build_adjusting_entries without its second loop
build_adjusting_entries_CreditsOnly(bankcredits, bankdebits) ==
    Entries(bankcredits)

build_adjusting_entries(bankcredits, bankdebits) ==
    Entries(bankcredits) \o Entries(bankdebits)

----------------------------------------------------------------------------
(* 5. EXCEL OUTPUT: what the claims read of the workbook *)

\* total_dr, after the loop of write_adjusting_entries
RECURSIVE TotalDr(_)
TotalDr(entries) ==
    IF Len(entries) = 0 THEN 0
    ELSE FAdd(TotalDr(SubSeq(entries, 1, Len(entries) - 1)), entries[Len(entries)].dr_amount)

\* total_cr, after the loop of write_adjusting_entries
RECURSIVE TotalCr(_)
TotalCr(entries) ==
    IF Len(entries) = 0 THEN 0
    ELSE FAdd(TotalCr(SubSeq(entries, 1, Len(entries) - 1)), entries[Len(entries)].cr_amount)

\* the Adjusting Entries sheet: its rows, its totals, its Double-Entry Check
write_adjusting_entries(entries) ==
    LET total_dr == TotalDr(entries)
        total_cr == TotalCr(entries)
        balanced == FEq(Round2(FSub(total_dr, total_cr)), 0)
    IN  [rows     |-> entries,
         total_dr |-> total_dr,
         total_cr |-> total_cr,
         double_entry_check |-> IF balanced THEN "PASS" ELSE "FAIL"]

\* write_dashboard: the status banner, the difference, the count of matched
\* pairs and the exceptions listed on the Dashboard sheet
write_dashboard(rec, matched_count, exc) ==
    [status       |-> IF rec.reconciled THEN "RECONCILED" ELSE "NOT RECONCILED",
     difference   |-> rec.difference,
     matched      |-> matched_count,
     exceptions   |-> IF exc # << >> THEN exc ELSE <<"None">>]

\* Sheets with the Exceptions sheet written in every run
Sheets_AlwaysExceptions(exc) ==
    <<"Dashboard", "Reconciliation", "Matched Items", "Outstanding Cheques",
      "Deposits in Transit", "Bank-Only Items", "Adjusting Entries">>
    \o <<"Exceptions">>

\* the sheets of the workbook, in the order main() writes them
Sheets(exc) ==
    <<"Dashboard", "Reconciliation", "Matched Items", "Outstanding Cheques",
      "Deposits in Transit", "Bank-Only Items", "Adjusting Entries">>
    \o (IF exc # << >> THEN <<"Exceptions">> ELSE << >>)

----------------------------------------------------------------------------
(* 4. RECONCILIATION MATH *)

\* float(df['_amount'].sum()) if not df.empty else 0.0
Total(df) == IF df # << >> THEN SumAmount(df) ELSE 0

\* build_reconciliation with the bank debits subtracted from the book side
build_reconciliation_DebitsSubtracted(bookclosing, bankclosing, dit, oc, bc, bd) ==
    LET adjusted_bank == FAdd(FAdd(bankclosing, Total(dit)), Total(oc))
        adjusted_book == FSub(FAdd(bookclosing, Total(bc)), Total(bd))
        difference == Round2(FSub(adjusted_bank, adjusted_book))
    IN  [book_closing              |-> bookclosing,
         bank_closing              |-> bankclosing,
         total_deposits_in_transit |-> Total(dit),
         total_outstanding_cheques |-> Total(oc),
         adjusted_bank             |-> adjusted_bank,
         total_bank_credits        |-> Total(bc),
         total_bank_debits         |-> Total(bd),
         adjusted_book             |-> adjusted_book,
         difference                |-> difference,
         reconciled                |-> FEq(difference, 0)]

\* build_reconciliation with the outstanding cheques subtracted from the bank side
build_reconciliation_ChequesSubtracted(bookclosing, bankclosing, dit, oc, bc, bd) ==
    LET adjusted_bank == FSub(FAdd(bankclosing, Total(dit)), Total(oc))
        adjusted_book == FAdd(FAdd(bookclosing, Total(bc)), Total(bd))
        difference == Round2(FSub(adjusted_bank, adjusted_book))
    IN  [book_closing              |-> bookclosing,
         bank_closing              |-> bankclosing,
         total_deposits_in_transit |-> Total(dit),
         total_outstanding_cheques |-> Total(oc),
         adjusted_bank             |-> adjusted_bank,
         total_bank_credits        |-> Total(bc),
         total_bank_debits         |-> Total(bd),
         adjusted_book             |-> adjusted_book,
         difference                |-> difference,
         reconciled                |-> FEq(difference, 0)]

\* build_reconciliation with the difference left unrounded
build_reconciliation_NoRounding(bookclosing, bankclosing, dit, oc, bc, bd) ==
    LET adjusted_bank == FAdd(FAdd(bankclosing, Total(dit)), Total(oc))
        adjusted_book == FAdd(FAdd(bookclosing, Total(bc)), Total(bd))
        difference == FSub(adjusted_bank, adjusted_book)
    IN  [book_closing              |-> bookclosing,
         bank_closing              |-> bankclosing,
         total_deposits_in_transit |-> Total(dit),
         total_outstanding_cheques |-> Total(oc),
         adjusted_bank             |-> adjusted_bank,
         total_bank_credits        |-> Total(bc),
         total_bank_debits         |-> Total(bd),
         adjusted_book             |-> adjusted_book,
         difference                |-> difference,
         reconciled                |-> FEq(difference, 0)]

build_reconciliation(bookclosing, bankclosing, dit, oc, bc, bd) ==
    LET total_deposits_in_transit == Total(dit)
        total_outstanding_cheques == Total(oc)
        total_bank_credits == Total(bc)
        total_bank_debits == Total(bd)
        adjusted_bank == FAdd(FAdd(bankclosing, total_deposits_in_transit),
                              total_outstanding_cheques)
        adjusted_book == FAdd(FAdd(bookclosing, total_bank_credits),
                              total_bank_debits)
        difference == Round2(FSub(adjusted_bank, adjusted_book))
    IN  [book_closing              |-> bookclosing,
         bank_closing              |-> bankclosing,
         total_deposits_in_transit |-> total_deposits_in_transit,
         total_outstanding_cheques |-> total_outstanding_cheques,
         adjusted_bank             |-> adjusted_bank,
         total_bank_credits        |-> total_bank_credits,
         total_bank_debits         |-> total_bank_debits,
         adjusted_book             |-> adjusted_book,
         difference                |-> difference,
         reconciled                |-> FEq(difference, 0)]

----------------------------------------------------------------------------
(* main() *)

\* LoadCashLedger without the sys.exit(1): the error is printed and main()
\* goes on
LoadCashLedger_GoesOn ==
    /\ pc = "load_book"
    /\ \E r \in {load_cash_ledger(cash_ledger_xlsx, period_start, period_end)} :
           /\ book_df' = r.period_df
           /\ book_opening' = r.opening_balance
           /\ book_closing' = r.closing_balance
           /\ stdout' = IF r.error # "None"
                        THEN Append(stdout, "  ERROR: " \o r.error)
                        ELSE stdout
    /\ pc' = "load_bank"
    /\ UNCHANGED <<inputs, bank_df, bank_opening, bank_closing, exceptions,
                   matching, buckets, recon, report, output_file, exit_status>>

\* load_cash_ledger(); on an error: print it and sys.exit(1)
LoadCashLedger ==
    /\ pc = "load_book"
    /\ \E r \in {load_cash_ledger(cash_ledger_xlsx, period_start, period_end)} :
           /\ book_df' = r.period_df
           /\ book_opening' = r.opening_balance
           /\ book_closing' = r.closing_balance
           /\ IF r.error # "None"
              THEN /\ stdout' = Append(stdout, "  ERROR: " \o r.error)
                   /\ pc' = "exit" /\ exit_status' = 1
              ELSE /\ pc' = "load_bank"
                   /\ UNCHANGED <<stdout, exit_status>>
    /\ UNCHANGED <<inputs, bank_df, bank_opening, bank_closing, exceptions,
                   matching, buckets, recon, report, output_file>>

\* load_bank_statement(); on an error: print it and sys.exit(1)
LoadBankStatement ==
    /\ pc = "load_bank"
    /\ \E r \in {load_bank_statement(bank_statement_xlsx, period_start, period_end)} :
           /\ bank_df' = r.period_df
           /\ bank_opening' = r.opening_balance
           /\ bank_closing' = r.closing_balance
           /\ IF r.error # "None"
              THEN /\ stdout' = Append(stdout, "  ERROR: " \o r.error)
                   /\ pc' = "exit" /\ exit_status' = 1
              ELSE /\ pc' = "check_opening"
                   /\ UNCHANGED <<stdout, exit_status>>
    /\ UNCHANGED <<inputs, book_df, book_opening, book_closing, exceptions,
                   matching, buckets, recon, report, output_file>>

\* OpeningCheck that compares the opening balances as they are, not rounded
OpeningCheck_Unrounded ==
    /\ pc = "check_opening"
    /\ exceptions' =
          IF ~FEq(book_opening, bank_opening)
          THEN Append(exceptions, "Opening balances differ")
          ELSE exceptions
    /\ book_matched' = {}
    /\ bank_matched' = {}
    /\ matched_pairs' = << >>
    /\ bi' = 1
    /\ pc' = "pass1"
    /\ UNCHANGED <<inputs, loaded, book_only, bank_only, buckets, recon,
                   stdout, report,
                   output_file, exit_status>>

\* the opening balance cross-check, then the entry of match_transactions()
OpeningCheck ==
    /\ pc = "check_opening"
    /\ exceptions' =
          IF ~FEq(Round2(book_opening), Round2(bank_opening))
          THEN Append(exceptions, "Opening balances differ")
          ELSE exceptions
    /\ book_matched' = {}
    /\ bank_matched' = {}
    /\ matched_pairs' = << >>
    /\ bi' = 1
    /\ pc' = "pass1"
    /\ UNCHANGED <<inputs, loaded, book_only, bank_only, buckets, recon,
                   stdout, report,
                   output_file, exit_status>>

\* pass 1, one turn of the outer loop: the ledger row bi takes the first free
\* statement row with its reference and amount
Pass1Step ==
    /\ pc = "pass1"
    /\ bi <= Len(book_df)
    /\ LET cand == ExactCandidates(book_df, bank_df, bi, bank_matched)
       IN  IF cand # {}
           THEN /\ matched_pairs' = Append(matched_pairs,
                      [book_idx |-> bi, bank_idx |-> First(cand), match_type |-> "Exact"])
                /\ book_matched' = book_matched \cup {bi}
                /\ bank_matched' = bank_matched \cup {First(cand)}
           ELSE UNCHANGED <<matched_pairs, book_matched, bank_matched>>
    /\ bi' = bi + 1
    /\ UNCHANGED <<inputs, pc, loaded, exceptions, book_only, bank_only, buckets,
                   recon, stdout, report,
                   output_file, exit_status>>

\* pass 1 is over: pass 2 starts at the first ledger row
Pass1Done ==
    /\ pc = "pass1"
    /\ bi > Len(book_df)
    /\ bi' = 1
    /\ pc' = "pass2"
    /\ UNCHANGED <<inputs, loaded, exceptions, book_matched, bank_matched,
                   matched_pairs, book_only, bank_only, buckets, recon,
                   stdout, report,
                   output_file, exit_status>>

\* Pass2Step that pairs no ledger row once pass 2 has made a pair
Pass2Step_OnePair ==
    /\ pc = "pass2"
    /\ bi <= Len(book_df)
    /\ LET cand == ProbableCandidates(book_df, bank_df, bi, bank_matched)
       IN  IF /\ bi \notin book_matched /\ cand # {}
              /\ \A k \in 1..Len(matched_pairs) : matched_pairs[k].match_type = "Exact"
           THEN /\ matched_pairs' = Append(matched_pairs,
                      [book_idx |-> bi, bank_idx |-> First(cand), match_type |-> "Probable"])
                /\ book_matched' = book_matched \cup {bi}
                /\ bank_matched' = bank_matched \cup {First(cand)}
           ELSE UNCHANGED <<matched_pairs, book_matched, bank_matched>>
    /\ bi' = bi + 1
    /\ UNCHANGED <<inputs, pc, loaded, exceptions, book_only, bank_only, buckets,
                   recon, stdout, report,
                   output_file, exit_status>>

\* pass 2, one turn of the outer loop: a ledger row that is still free takes the
\* first free statement row with its amount, dated within the window
Pass2Step ==
    /\ pc = "pass2"
    /\ bi <= Len(book_df)
    /\ LET cand == ProbableCandidates(book_df, bank_df, bi, bank_matched)
       IN  IF bi \notin book_matched /\ cand # {}
           THEN /\ matched_pairs' = Append(matched_pairs,
                      [book_idx |-> bi, bank_idx |-> First(cand), match_type |-> "Probable"])
                /\ book_matched' = book_matched \cup {bi}
                /\ bank_matched' = bank_matched \cup {First(cand)}
           ELSE UNCHANGED <<matched_pairs, book_matched, bank_matched>>
    /\ bi' = bi + 1
    /\ UNCHANGED <<inputs, pc, loaded, exceptions, book_only, bank_only, buckets,
                   recon, stdout, report,
                   output_file, exit_status>>

\* pass 2 is over: match_transactions() returns the pairs and the leftovers
Pass2Done ==
    /\ pc = "pass2"
    /\ bi > Len(book_df)
    /\ book_only' = Unmatched(book_df, book_matched)
    /\ bank_only' = Unmatched(bank_df, bank_matched)
    /\ pc' = "classify"
    /\ UNCHANGED <<inputs, loaded, exceptions, bi, book_matched, bank_matched,
                   matched_pairs, buckets, recon, stdout, report,
                   output_file, exit_status>>

\* classify_book_only() and classify_bank_only()
Classify ==
    /\ pc = "classify"
    /\ deposits_in_transit' = classify_book_only(book_only).deposits_in_transit
    /\ outstanding_cheques' = classify_book_only(book_only).outstanding_cheques
    /\ bank_credits' = classify_bank_only(bank_only).bank_credits
    /\ bank_debits' = classify_bank_only(bank_only).bank_debits
    /\ pc' = "reconcile"
    /\ UNCHANGED <<inputs, loaded, exceptions, matching, recon, stdout, report,
                   output_file,
                   exit_status>>

\* build_reconciliation(), and the exception a difference records
BuildReconciliation ==
    /\ pc = "reconcile"
    /\ recon' = build_reconciliation(book_closing, bank_closing,
                    deposits_in_transit, outstanding_cheques,
                    bank_credits, bank_debits)
    /\ exceptions' =
          IF ~recon'.reconciled
          THEN Append(exceptions, "Reconciliation failed")
          ELSE exceptions
    /\ pc' = "adjust"
    /\ UNCHANGED <<inputs, loaded, matching, buckets, stdout, report,
                   output_file, exit_status>>

\* build_adjusting_entries()
BuildAdjustingEntries ==
    /\ pc = "adjust"
    /\ adjusting_entries' = build_adjusting_entries(bank_credits, bank_debits)
    /\ pc' = "write"
    /\ UNCHANGED <<inputs, loaded, exceptions, matching, buckets, recon, stdout,
                   output_dir, wb, output_file, exit_status>>

\* WriteOutput that saves the workbook only of a reconciled run and exits
\* with status 1 otherwise
WriteOutput_OnlyReconciled ==
    /\ pc = "write"
    /\ output_dir' = "created"
    /\ wb' = [sheets            |-> Sheets(exceptions),
              dashboard         |-> write_dashboard(recon, Len(matched_pairs), exceptions),
              adjusting_entries |-> write_adjusting_entries(adjusting_entries),
              exceptions        |-> exceptions]
    /\ output_file' = IF recon.reconciled THEN "written" ELSE output_file
    /\ exit_status' = IF recon.reconciled THEN 0 ELSE 1
    /\ pc' = "done"
    /\ UNCHANGED <<inputs, loaded, exceptions, matching, buckets, recon,
                   adjusting_entries, stdout>>

\* the directory of output_file is made, the workbook is built and saved;
\* main() returns
WriteOutput ==
    /\ pc = "write"
    /\ output_dir' = "created"
    /\ wb' = [sheets            |-> Sheets(exceptions),
              dashboard         |-> write_dashboard(recon, Len(matched_pairs), exceptions),
              adjusting_entries |-> write_adjusting_entries(adjusting_entries),
              exceptions        |-> exceptions]
    /\ output_file' = "written"
    /\ exit_status' = 0
    /\ pc' = "done"
    /\ UNCHANGED <<inputs, loaded, exceptions, matching, buckets, recon,
                   adjusting_entries, stdout>>

\* the steps of main() that follow the two loads
AfterLoad ==
    \/ OpeningCheck
    \/ Pass1Step
    \/ Pass1Done
    \/ Pass2Step
    \/ Pass2Done
    \/ Classify
    \/ BuildReconciliation
    \/ BuildAdjustingEntries
    \/ WriteOutput

Next ==
    \/ LoadCashLedger
    \/ LoadBankStatement
    \/ OpeningCheck
    \/ Pass1Step
    \/ Pass1Done
    \/ Pass2Step
    \/ Pass2Done
    \/ Classify
    \/ BuildReconciliation
    \/ BuildAdjustingEntries
    \/ WriteOutput

----------------------------------------------------------------------------
(* The input workbooks.  A sheet is laid out as the fixtures of             *)
(* create_ledger_test_data.py and create_bank_statement.py lay theirs out:  *)
(* an opening balance row marked "OB" dated before the period, with blank   *)
(* Debit and Credit, then one row per transaction with the cell of the      *)
(* unused side blank and the running balance in Balance.                    *)

\* midnight of calendar day d, in ticks
Day(d) == d * TicksPerDay

\* all sequences over S of length 0..n
SeqsUpTo(S, n) == UNION {[1..k -> S] : k \in 0..n}

\* one transaction of a sheet, before its Balance cell is known
Tx(date, reference, debit, credit) ==
    [Date |-> date, Reference |-> reference, Debit |-> debit, Credit |-> credit]

\* what a transaction adds to the running balance of its sheet
Posting(side, t) ==
    IF side = "book"
    THEN ToNumericFill0(t.Debit) - ToNumericFill0(t.Credit)
    ELSE ToNumericFill0(t.Credit) - ToNumericFill0(t.Debit)

\* the rows of the transactions txs, the running balance carried from `balance`
RECURSIVE PostedRows(_, _, _)
PostedRows(side, txs, balance) ==
    IF txs = << >> THEN << >>
    ELSE LET t == Head(txs)
             b == balance + Posting(side, t)
         IN  << [Date |-> t.Date, Reference |-> t.Reference, Description |-> "",
                 Debit |-> t.Debit, Credit |-> t.Credit, Balance |-> b] >>
             \o PostedRows(side, Tail(txs), b)

\* the opening balance row of a sheet
OpeningRow(date, balance) ==
    [Date |-> date, Reference |-> "OB", Description |-> "Opening Balance",
     Debit |-> NaN, Credit |-> NaN, Balance |-> balance]

\* the headers create_cash_ledger and create_bank_statement write
Headers(side) ==
    IF side = "book"
    THEN <<"Bank Account", "Date", "Reference", "Description", "Debit", "Credit", "Balance">>
    ELSE <<"Date", "Reference", "Description", "Debit", "Credit", "Balance">>

\* the path of the file of a side in data_dir
Path(side) == IF side = "book" THEN "cash_ledger.xlsx" ELSE "bank_statement.xlsx"

\* a file that is there and readable, with the headers of its side
Workbook(side, rows) ==
    [path |-> Path(side), exists |-> TRUE, readable |-> TRUE,
     columns |-> Headers(side), data |-> rows]

\* main() before its first statement
Start ==
    /\ pc = "load_book"
    /\ book_df = None /\ book_opening = None /\ book_closing = None
    /\ bank_df = None /\ bank_opening = None /\ bank_closing = None
    /\ exceptions = << >>
    /\ bi = None /\ book_matched = None /\ bank_matched = None
    /\ matched_pairs = None /\ book_only = None /\ bank_only = None
    /\ deposits_in_transit = None /\ outstanding_cheques = None
    /\ bank_credits = None /\ bank_debits = None
    /\ recon = None
    /\ adjusting_entries = None
    /\ stdout = << >>
    /\ output_dir = "absent"
    /\ wb = None
    /\ output_file = "absent"
    /\ exit_status = None

\* the opening balance of the fixtures' sheets
OpeningBal == 1500000

\* the period of the runs: days 1..31, the opening rows dated day 0
PeriodFirstDay == 1

PeriodLastDay == 31

\* a sheet: the opening row, if it has one, then the posted transactions
Sheet(side, has_opening_row, txs) ==
    IF has_opening_row
    THEN Workbook(side, <<OpeningRow(Day(0), OpeningBal)>> \o PostedRows(side, txs, OpeningBal))
    ELSE Workbook(side, PostedRows(side, txs, 0))

\* the ledger rows are dated day 10
BookDay == 10

\* Spec, the matcher's inputs: up to MaxRows transactions a side.  The
\* references differ in case across the sides; a receipt is 14 mills in the
\* ledger and 10 mills in the statement (equal once rounded), a payment is 10
\* mills in both; the statement rows are dated 3 days before the ledger rows
\* or 4 days after them.
BookTxs ==
    {Tx(Day(BookDay), ref, dc[1], dc[2]) :
        ref \in {"inv1", "CHQ2"},
        dc \in {<<14, NaN>>, <<NaN, 10>>}}

BankTxs ==
    {Tx(date, ref, dc[1], dc[2]) :
        date \in {Day(BookDay - DATE_PROXIMITY_DAYS), Day(BookDay + DATE_PROXIMITY_DAYS + 1)},
        ref \in {"INV1", "CHQ2"},
        dc \in {<<NaN, 10>>, <<10, NaN>>}}

Init ==
    /\ period_start = Day(PeriodFirstDay)
    /\ period_end = Day(PeriodLastDay)
    /\ \E txs \in SeqsUpTo(BookTxs, MaxRows) :
          cash_ledger_xlsx = Sheet("book", TRUE, txs)
    /\ \E txs \in SeqsUpTo(BankTxs, MaxRows) :
          bank_statement_xlsx = Sheet("bank", TRUE, txs)
    /\ Start

Spec == Init /\ [][Next]_vars

\* SpecMoney, the calculator's inputs: up to MaxRows transactions a side, all
\* dated the same day; amounts of whole cents (10 mills, 0) and not (14, 6).
MoneyBookTxs ==
    {Tx(Day(BookDay), ref, dc[1], dc[2]) :
        ref \in {"inv1", "CHQ2"},
        dc \in {<<10, NaN>>, <<14, NaN>>, <<NaN, 10>>, <<NaN, NaN>>}}

MoneyBankTxs ==
    {Tx(Day(BookDay), "CHQ2", dc[1], dc[2]) :
        dc \in {<<NaN, 10>>, <<NaN, 6>>, <<10, NaN>>, <<NaN, NaN>>}}

InitMoney ==
    /\ period_start = Day(PeriodFirstDay)
    /\ period_end = Day(PeriodLastDay)
    /\ \E txs \in SeqsUpTo(MoneyBookTxs, MaxRows) :
          cash_ledger_xlsx = Sheet("book", TRUE, txs)
    /\ \E txs \in SeqsUpTo(MoneyBankTxs, MaxRows) :
          bank_statement_xlsx = Sheet("bank", TRUE, txs)
    /\ Start

SpecMoney == InitMoney /\ [][Next]_vars

\* SpecSingle, one transaction a side: the ledger row dated day 10, the
\* statement row dated up to MaxGapDays days before or after it, at every tick;
\* either cell of a row blank, or both filled; each sheet with or without its
\* opening row.
MaxGapDays == 4

SingleBookTxs ==
    {Tx(Day(BookDay), ref, dc[1], dc[2]) :
        ref \in {"inv1", "CHQ2"},
        dc \in {<<10, NaN>>, <<14, NaN>>, <<6, NaN>>, <<NaN, 10>>, <<NaN, NaN>>, <<24, 10>>}}

SingleBankTxs ==
    {Tx(Day(BookDay) + gap, ref, dc[1], dc[2]) :
        gap \in (0 - Day(MaxGapDays))..Day(MaxGapDays),
        ref \in {"INV1", "CHQ2", "chq2 "},
        dc \in {<<NaN, 10>>, <<NaN, 14>>, <<NaN, 6>>, <<10, NaN>>, <<NaN, NaN>>, <<10, 24>>}}

InitSingle ==
    /\ period_start = Day(PeriodFirstDay)
    /\ period_end = Day(PeriodLastDay)
    /\ \E t \in SingleBookTxs, ob \in BOOLEAN :
          cash_ledger_xlsx = Sheet("book", ob, <<t>>)
    /\ \E t \in SingleBankTxs, ob \in BOOLEAN :
          bank_statement_xlsx = Sheet("bank", ob, <<t>>)
    /\ Start

SpecSingle == InitSingle /\ [][Next]_vars

----------------------------------------------------------------------------
(* The January 2026 fixture of create_ledger_test_data.py and               *)
(* create_bank_statement.py.  Its amounts are whole numbers and stand here  *)
(* as written: the model's rounding leaves them as they are, as round(x, 2) *)
(* leaves a whole number.  "2025-12-31" is day 0, "2026-01-dd" day dd; the  *)
(* long dash of some descriptions is the hyphen here.                       *)

\* a row of a sheet
Row(date, reference, description, debit, credit, balance) ==
    [Date |-> date, Reference |-> reference, Description |-> description,
     Debit |-> debit, Credit |-> credit, Balance |-> balance]

CashLedgerRows ==
    <<Row(Day(0), "OB", "Opening Balance", NaN, NaN, 1500000),
       Row(Day(2), "CRJ-001", "Cash sales - Shop 1", 380000, NaN, 1880000),
       Row(Day(3), "CRJ-002", "Cash sales - Shop 2", 290000, NaN, 2170000),
       Row(Day(5), "CRJ-003", "AR receipt - Hla Min", 250000, NaN, 2420000),
       Row(Day(5), "CPJ-001", "Payment - Golden Harvest", NaN, 320000, 2100000),
       Row(Day(6), "CPJ-002", "Rent - Shop 1", NaN, 450000, 1650000),
       Row(Day(7), "CRJ-004", "Cash sales - Shop 3", 420000, NaN, 2070000),
       Row(Day(7), "CPJ-003", "Rent - Shop 2", NaN, 380000, 1690000),
       Row(Day(8), "CPJ-004", "Rent - Shop 3", NaN, 350000, 1340000),
       Row(Day(10), "CRJ-005", "AR receipt - Kyaw Zin", 180000, NaN, 1520000),
       Row(Day(10), "CPJ-005", "Electricity bill", NaN, 125000, 1395000),
       Row(Day(10), "CPJ-006", "Payment - Fresh Market", NaN, 185000, 1210000),
       Row(Day(12), "CRJ-006", "Cash sales - all shops", 550000, NaN, 1760000),
       Row(Day(12), "CPJ-007", "Internet & telephone", NaN, 55000, 1705000),
       Row(Day(14), "CRJ-007", "AR receipt - Win Htut", 450000, NaN, 2155000),
       Row(Day(15), "CPJ-008", "Payment - Pack & Go", NaN, 95000, 2060000),
       Row(Day(15), "CPJ-009", "Transport costs", NaN, 85000, 1975000),
       Row(Day(17), "CRJ-008", "Cash sales - Shop 1", 315000, NaN, 2290000),
       Row(Day(18), "CPJ-010", "Petty cash top-up", NaN, 100000, 2190000),
       Row(Day(20), "CRJ-009", "AR receipt - Thida Aye", 320000, NaN, 2510000),
       Row(Day(20), "CPJ-011", "Payment - Supply Hub", NaN, 198000, 2312000),
       Row(Day(22), "CRJ-010", "Cash sales - Shop 2", 410000, NaN, 2722000),
       Row(Day(22), "CPJ-012", "Insurance premium", NaN, 65000, 2657000),
       Row(Day(25), "CRJ-011", "AR receipt - Zaw Lin", 750000, NaN, 3407000),
       Row(Day(25), "CPJ-013", "Equipment repair", NaN, 95000, 3312000),
       Row(Day(28), "CRJ-012", "Cash sales - all shops", 625000, NaN, 3937000),
       Row(Day(28), "CPJ-014", "Marketing agency", NaN, 120000, 3817000),
       Row(Day(30), "CRJ-013", "Capital introduced", 500000, NaN, 4317000),
       Row(Day(30), "CPJ-015", "Owner drawings", NaN, 200000, 4117000),
       Row(Day(31), "PAY-001", "Salaries - kitchen", NaN, 750000, 3367000),
       Row(Day(31), "PAY-002", "Salaries - service", NaN, 960000, 2407000),
       Row(Day(31), "PAY-003", "Salaries - management", NaN, 600000, 1807000),
       Row(Day(31), "PAY-004", "Salaries - delivery", NaN, 360000, 1447000),
       Row(Day(31), "GJ-004", "Bank charges", NaN, 8500, 1438500)>>

BankStatementRows ==
    <<Row(Day(0), "OB", "Opening Balance", NaN, NaN, 1500000),
       Row(Day(2), "CRJ-001", "Cash sales - Shop 1", NaN, 380000, 1880000),
       Row(Day(3), "CRJ-002", "Cash sales - Shop 2", NaN, 290000, 2170000),
       Row(Day(5), "CRJ-003", "AR receipt - Hla Min", NaN, 250000, 2420000),
       Row(Day(5), "CPJ-001", "Payment - Golden Harvest", 320000, NaN, 2100000),
       Row(Day(6), "CPJ-002", "Rent - Shop 1", 450000, NaN, 1650000),
       Row(Day(7), "CRJ-004", "Cash sales - Shop 3", NaN, 420000, 2070000),
       Row(Day(7), "CPJ-003", "Rent - Shop 2", 380000, NaN, 1690000),
       Row(Day(8), "CPJ-004", "Rent - Shop 3", 350000, NaN, 1340000),
       Row(Day(10), "CRJ-005", "AR receipt - Kyaw Zin", NaN, 180000, 1520000),
       Row(Day(10), "CPJ-005", "Electricity bill", 125000, NaN, 1395000),
       Row(Day(10), "CPJ-006", "Payment - Fresh Market", 185000, NaN, 1210000),
       Row(Day(12), "CRJ-006", "Cash sales - all shops", NaN, 550000, 1760000),
       Row(Day(12), "CPJ-007", "Internet & telephone", 55000, NaN, 1705000),
       Row(Day(14), "CRJ-007", "AR receipt - Win Htut", NaN, 450000, 2155000),
       Row(Day(15), "CPJ-008", "Payment - Pack & Go", 95000, NaN, 2060000),
       Row(Day(15), "CPJ-009", "Transport costs", 85000, NaN, 1975000),
       Row(Day(17), "CRJ-008", "Cash sales - Shop 1", NaN, 315000, 2290000),
       Row(Day(18), "CPJ-010", "Petty cash top-up", 100000, NaN, 2190000),
       Row(Day(20), "CRJ-009", "AR receipt - Thida Aye", NaN, 320000, 2510000),
       Row(Day(20), "CPJ-011", "Payment - Supply Hub", 198000, NaN, 2312000),
       Row(Day(22), "CRJ-010", "Cash sales - Shop 2", NaN, 410000, 2722000),
       Row(Day(22), "CPJ-012", "Insurance premium", 65000, NaN, 2657000),
       Row(Day(25), "CRJ-011", "AR receipt - Zaw Lin", NaN, 750000, 3407000),
       Row(Day(25), "CPJ-013", "Equipment repair", 95000, NaN, 3312000),
       Row(Day(28), "CRJ-012", "Cash sales - all shops", NaN, 625000, 3937000),
       Row(Day(28), "CPJ-014", "Marketing agency", 120000, NaN, 3817000),
       Row(Day(28), "DIRECT-01", "Software subscription (auto-debit)", 18000, NaN, 3799000),
       Row(Day(31), "GJ-004", "Bank service charges", 8500, NaN, 3790500),
       Row(Day(31), "PAY-001", "Salaries - kitchen staff", 750000, NaN, 3040500),
       Row(Day(31), "PAY-002", "Salaries - service staff", 960000, NaN, 2080500),
       Row(Day(31), "PAY-003", "Salaries - management", 600000, NaN, 1480500),
       Row(Day(31), "INT-001", "Bank interest earned", NaN, 15000, 1495500)>>

\* data_dir of the fixture: the two files
InitFixture ==
    /\ cash_ledger_xlsx = Workbook("book", CashLedgerRows)
    /\ bank_statement_xlsx = Workbook("bank", BankStatementRows)

----------------------------------------------------------------------------
(* SpecFiles, the files main() may find: the fixture; or, on one side, a    *)
(* sheet of up to MaxFileRows rows dated at the bounds of the period and    *)
(* one tick outside them, marked as opening balance or not, in any order,   *)
(* and on the other side a file that is missing, unreadable, lacks a        *)
(* required column, is empty, or has one row under alias headers.           *)

MaxFileRows == 2

\* the bounds of the period and the ticks next to them
EdgeDates ==
    {Day(PeriodFirstDay) - 1, Day(PeriodFirstDay),
     Day(PeriodLastDay), Day(PeriodLastDay) + 1}

\* the opening balance marker, the marker between blanks, a cheque number
Markers == {"OB", " OB ", "CHQ2"}

\* the Balance cell of the row at position i of a generated sheet
BalanceAt(i) == 1000 * i

\* an inflow of 10 mills at position i of the sheet of a side
EdgeRow(side, i, date, reference) ==
    IF side = "book"
    THEN Row(date, reference, "", 10, NaN, BalanceAt(i))
    ELSE Row(date, reference, "", NaN, 10, BalanceAt(i))

\* the sheets of k rows
EdgeSheets(side, k) ==
    {[i \in 1..k |-> EdgeRow(side, i, c[i][1], c[i][2])] :
        c \in [1..k -> EdgeDates \X Markers]}

\* the files with a sheet of up to MaxFileRows rows
SheetFiles(side) ==
    {Workbook(side, rows) : rows \in UNION {EdgeSheets(side, k) : k \in 0..MaxFileRows}}

\* headers that resolve to the six columns by alias
AliasHeaders == <<" date ", "Ref No", "NARRATION", "Dr", "Cr", "Running Balance">>

\* headers without a Balance column, and without a Reference column
LackingHeaders ==
    {<<"Date", "Reference", "Description", "Debit", "Credit">>,
     <<"Trans Date", "Memo", "Debit", "Credit", "Balance", "Amount">>}

\* one row inside the period
OneRow(side) == <<EdgeRow(side, 1, Day(PeriodFirstDay), "CHQ2")>>

\* the files of the other side
OtherFiles(side) ==
    {[Workbook(side, OneRow(side)) EXCEPT !.exists = FALSE],
     [Workbook(side, OneRow(side)) EXCEPT !.readable = FALSE],
     [Workbook(side, OneRow(side)) EXCEPT !.columns = AliasHeaders],
     Workbook(side, << >>)}
    \cup {[Workbook(side, OneRow(side)) EXCEPT !.columns = h] : h \in LackingHeaders}

InitFiles ==
    /\ period_start = Day(PeriodFirstDay)
    /\ period_end = Day(PeriodLastDay)
    /\ \/ InitFixture
       \/ /\ cash_ledger_xlsx \in SheetFiles("book")
          /\ bank_statement_xlsx \in OtherFiles("bank")
       \/ /\ cash_ledger_xlsx \in OtherFiles("book")
          /\ bank_statement_xlsx \in SheetFiles("bank")
    /\ Start

SpecFiles == InitFiles /\ [][Next]_vars

----------------------------------------------------------------------------
(* SpecEntries, the bank-only items: a statement of up to MaxEntryRows rows *)
(* dated one day, the first with any of the Descriptions, as an inflow or   *)
(* an outflow, the others a service fee; a ledger that is empty, or has the *)
(* receipt of the first statement row, or a payment the statement lacks.    *)

MaxEntryRows == 2

\* the keywords of categorize_bank_item in several spellings, and words that
\* are no keyword
Fragments ==
    {"Interest", "PAYMENT", "collection", "Transfer In", "charge", "FEE",
     "Service", "insurance", "Subscription", "software", "SaaS", "loan",
     "Repayment", "instalment", "dishonour", "NSF", "returned", "Bounce",
     "coffee", "misc", "transfer"}

\* the first words of the descriptions of two words
Leads ==
    {"Interest", "Payment", "Bank charge", "Insurance", "Software", "Loan",
     "Bounce", "transfer"}

\* the descriptions: one fragment, two words, and the two bank-only rows of
\* create_bank_statement
Descriptions ==
    Fragments
    \cup {l \o " " \o f : l \in Leads, f \in Fragments}
    \cup {"Software subscription (auto-debit)", "Bank interest earned"}

\* the references of the statement rows, by position
EntryRefs == <<"DD-01", "DD-02", "DD-03", "DD-04">>

\* the Debit and Credit cells of an inflow, an outflow and an empty row
Cells == {<<NaN, 10>>, <<10, NaN>>, <<NaN, NaN>>}

\* the statement row at position i
EntryRow(i, description, dc) ==
    Row(Day(BookDay), EntryRefs[i], description, dc[1], dc[2], BalanceAt(i))

\* the statements: a first row, then service fees
EntryStatements ==
    {<<EntryRow(1, d, dc)>> \o [i \in 1..Len(c) |-> EntryRow(i + 1, "Service fee", c[i])] :
        d \in Descriptions, dc \in Cells \ {<<NaN, NaN>>},
        c \in UNION {[1..n -> Cells] : n \in 0..(MaxEntryRows - 1)}}

\* the ledgers: no row; the receipt of DD-01; a payment of 14 mills
EntryLedgers ==
    {<< >>,
     <<Row(Day(BookDay), "DD-01", "Receipt", 10, NaN, BalanceAt(1))>>,
     <<Row(Day(BookDay), "CPJ-9", "Payment by cheque", NaN, 14, BalanceAt(1))>>}

InitEntries ==
    /\ period_start = Day(PeriodFirstDay)
    /\ period_end = Day(PeriodLastDay)
    /\ \E rows \in EntryLedgers : cash_ledger_xlsx = Workbook("book", rows)
    /\ \E rows \in EntryStatements : bank_statement_xlsx = Workbook("bank", rows)
    /\ Start

SpecEntries == InitEntries /\ [][Next]_vars

----------------------------------------------------------------------------
(* SpecOpening, the opening balances: each sheet without an opening row or  *)
(* with one whose Balance is 6, 14 or 20 mills (6 and 14 are both 0.01 once *)
(* rounded), followed by at most one transaction of Spec.                   *)

\* the Balance of the opening row; None for a sheet without that row
OpeningCells == {None, 6, 14, 20}

\* a sheet with the given opening row, then the posted transactions
OpeningSheet(side, opening, txs) ==
    IF opening = None
    THEN Workbook(side, PostedRows(side, txs, 0))
    ELSE Workbook(side, <<OpeningRow(Day(0), opening)>> \o PostedRows(side, txs, opening))

InitOpening ==
    /\ period_start = Day(PeriodFirstDay)
    /\ period_end = Day(PeriodLastDay)
    /\ \E opening \in OpeningCells, txs \in {<< >>} \cup {<<t>> : t \in BookTxs} :
          cash_ledger_xlsx = OpeningSheet("book", opening, txs)
    /\ \E opening \in OpeningCells, txs \in {<< >>} \cup {<<t>> : t \in BankTxs} :
          bank_statement_xlsx = OpeningSheet("bank", opening, txs)
    /\ Start

SpecOpening == InitOpening /\ [][Next]_vars

----------------------------------------------------------------------------
(* SpecBlank, the blank cells: each sheet an opening row and at most one    *)
(* transaction of Spec, any of its Balance cells blank; the statement with  *)
(* its Debit and Credit columns or without them.                            *)

\* the rows with the Balance cells of the rows in `which` left blank
BlankedRows(rows, which) ==
    [i \in 1..Len(rows) |->
        IF i \in which THEN [rows[i] EXCEPT !.Balance = NaN] ELSE rows[i]]

\* the headers of a statement without its two optional columns
HeadersWithoutAmounts == <<"Date", "Reference", "Description", "Balance">>

\* the sheets of a side: the opening row and the transactions, blanked
BlankSheets(side, Txs) ==
    {Workbook(side, BlankedRows(<<OpeningRow(Day(0), OpeningBal)>>
                                \o PostedRows(side, txs, OpeningBal), which)) :
        txs \in {<< >>} \cup {<<t>> : t \in Txs}, which \in SUBSET {1, 2}}

InitBlank ==
    /\ period_start = Day(PeriodFirstDay)
    /\ period_end = Day(PeriodLastDay)
    /\ cash_ledger_xlsx \in BlankSheets("book", BookTxs)
    /\ \E file \in BlankSheets("bank", BankTxs) :
          \/ bank_statement_xlsx = file
          \/ bank_statement_xlsx = [file EXCEPT !.columns = HeadersWithoutAmounts]
    /\ Start

SpecBlank == InitBlank /\ [][Next]_vars

----------------------------------------------------------------------------
(* SpecGreedy, the ties: up to MaxRows receipts a side, 14 mills in the     *)
(* ledger and 10 mills in the statement; the statement rows dated 3 days    *)
(* before the ledger rows, 1 day after them or 4 days after them.           *)

GreedyBookTxs == {Tx(Day(BookDay), ref, 14, NaN) : ref \in {"inv1", "CHQ2"}}

GreedyBankTxs ==
    {Tx(date, ref, NaN, 10) :
        date \in {Day(BookDay - DATE_PROXIMITY_DAYS), Day(BookDay + 1),
                  Day(BookDay + DATE_PROXIMITY_DAYS + 1)},
        ref \in {"INV1", "CHQ2"}}

InitGreedy ==
    /\ period_start = Day(PeriodFirstDay)
    /\ period_end = Day(PeriodLastDay)
    /\ \E txs \in SeqsUpTo(GreedyBookTxs, MaxRows) :
          cash_ledger_xlsx = Sheet("book", TRUE, txs)
    /\ \E txs \in SeqsUpTo(GreedyBankTxs, MaxRows) :
          bank_statement_xlsx = Sheet("bank", TRUE, txs)
    /\ Start

SpecGreedy == InitGreedy /\ [][Next]_vars

----------------------------------------------------------------------------
(* SpecSubCent, amounts below the cent: up to MaxRows transactions a side,  *)
(* one reference, one day; ledger receipts of 4, 14 and 10 mills and        *)
(* payments of 4 and 10 mills; statement deposits of 6 and 10 mills and a   *)
(* withdrawal of 4 mills.                                                   *)

SubCentBookTxs ==
    {Tx(Day(BookDay), "CHQ2", dc[1], dc[2]) :
        dc \in {<<4, NaN>>, <<14, NaN>>, <<10, NaN>>, <<NaN, 4>>, <<NaN, 10>>}}

SubCentBankTxs ==
    {Tx(Day(BookDay), "CHQ2", dc[1], dc[2]) :
        dc \in {<<NaN, 6>>, <<NaN, 10>>, <<4, NaN>>}}

InitSubCent ==
    /\ period_start = Day(PeriodFirstDay)
    /\ period_end = Day(PeriodLastDay)
    /\ \E txs \in SeqsUpTo(SubCentBookTxs, MaxRows) :
          cash_ledger_xlsx = Sheet("book", TRUE, txs)
    /\ \E txs \in SeqsUpTo(SubCentBankTxs, MaxRows) :
          bank_statement_xlsx = Sheet("bank", TRUE, txs)
    /\ Start

SpecSubCent == InitSubCent /\ [][Next]_vars

----------------------------------------------------------------------------
(* Properties *)

\* main() is inside match_transactions(), between two turns of a pass
InMatcher == pc \in {"pass1", "pass2"}

\* match_transactions() has returned
Matched == pc \in {"classify", "reconcile", "adjust", "write", "done"}

\* the two classifiers have returned
Classified == pc \in {"reconcile", "adjust", "write", "done"}

\* build_reconciliation() has returned
Reconciled == pc \in {"adjust", "write", "done"}

\* the pairs of a given match type
PairsOf(type) == {k \in 1..Len(matched_pairs) : matched_pairs[k].match_type = type}

\* C1: at every step of pass 1 and pass 2 and after match_transactions, no
\* ledger row is the book_idx of two matched pairs and no statement row is the
\* bank_idx of two matched pairs.
C1_NoDoubleMatch ==
    (InMatcher \/ Matched) =>
        \A j, k \in 1..Len(matched_pairs) :
            j # k => /\ matched_pairs[j].book_idx # matched_pairs[k].book_idx
                     /\ matched_pairs[j].bank_idx # matched_pairs[k].bank_idx

\* C1 witness: pass 2 is running and an Exact and a Probable pair are in place
C1_Witness ==
    /\ pc = "pass2"
    /\ PairsOf("Exact") # {}
    /\ PairsOf("Probable") # {}

\* the ledger rows and the statement rows, by label
BookRows == 1..Len(book_df)

BankRows == 1..Len(bank_df)

\* the rows b and s are joined by a pair of the given type
Paired(b, s, type) ==
    \E k \in 1..Len(matched_pairs) :
        matched_pairs[k] = [book_idx |-> b, bank_idx |-> s, match_type |-> type]

\* the ledger row b is in a pair of the given type
BookIn(b, type) == \E k \in PairsOf(type) : matched_pairs[k].book_idx = b

\* the statement row s is in a pair of the given type
BankIn(s, type) == \E k \in PairsOf(type) : matched_pairs[k].bank_idx = s

\* what pass 1 compares: the upper-cased reference and the rounded amount
Key(r) == <<Upper(r.Reference), Round2(r._amount)>>

\* the rows carry the same reference and the same amount, as written
Identical(b, s) ==
    /\ book_df[b].Reference = bank_df[s].Reference
    /\ book_df[b]._amount = bank_df[s]._amount

\* C2 as stated: every ledger row and statement row with identical reference
\* and identical amount are in the same Exact pair, other rows sharing that
\* reference and amount or not.
C2_Original ==
    Matched =>
        \A b \in BookRows, s \in BankRows :
            Identical(b, s) => Paired(b, s, "Exact")

\* C2 amended: of a ledger row and a statement row with identical reference
\* and identical amount, at least one is in an Exact pair; the two are in the
\* same Exact pair when no other row of either sheet carries that (upper-cased)
\* reference and that rounded amount; and the two rows of every Exact pair
\* carry the same upper-cased reference and the same rounded amount.
C2_ExactPairing ==
    Matched =>
        /\ \A b \in BookRows, s \in BankRows :
              Identical(b, s) =>
                  /\ BookIn(b, "Exact") \/ BankIn(s, "Exact")
                  /\ ( /\ \A b2 \in BookRows : Key(book_df[b2]) = Key(book_df[b]) => b2 = b
                       /\ \A s2 \in BankRows : Key(bank_df[s2]) = Key(bank_df[s]) => s2 = s )
                     => Paired(b, s, "Exact")
        /\ \A k \in PairsOf("Exact") :
              Key(book_df[matched_pairs[k].book_idx]) = Key(bank_df[matched_pairs[k].bank_idx])

\* C2 witness: two ledger rows and two statement rows all carry one reference
\* and one amount, and pass 1 made two Exact pairs of them
C2_Witness ==
    /\ Matched
    /\ Len(book_df) = 2 /\ Len(bank_df) = 2
    /\ \A b \in BookRows, s \in BankRows : Identical(b, s)
    /\ Paired(1, 1, "Exact") /\ Paired(2, 2, "Exact")

\* the row labelled i is in the frame df
InFrame(df, i) == \E k \in 1..Len(df) : df[k].index = i

\* the rows b and s are what the Probable pass looks for: both free after the
\* Exact pass, of equal rounded amount, dated at most 3 days apart
ProbableCase(b, s) ==
    /\ ~BookIn(b, "Exact")
    /\ ~BankIn(s, "Exact")
    /\ Round2(book_df[b]._amount) = Round2(bank_df[s]._amount)
    /\ Abs(book_df[b].Date - bank_df[s].Date) <= Day(DATE_PROXIMITY_DAYS)

\* C3 as stated: a ledger row and a statement row that are both unmatched after
\* the Exact pass, of equal rounded amount and dated at most 3 days apart, are
\* neither in book_only nor in bank_only.
C3_Original ==
    Matched =>
        \A b \in BookRows, s \in BankRows :
            ProbableCase(b, s) => ~InFrame(book_only, b) /\ ~InFrame(bank_only, s)

\* C3 amended: of such a ledger row and statement row at most one is left
\* unmatched (the ledger row out of book_only or the statement row out of
\* bank_only), and the two are matched with each other, as Probable, when no
\* other row that the Exact pass left free has their rounded amount.
C3_ProbableMatches ==
    Matched =>
        \A b \in BookRows, s \in BankRows :
            ProbableCase(b, s) =>
                /\ ~InFrame(book_only, b) \/ ~InFrame(bank_only, s)
                /\ ( /\ \A b2 \in BookRows \ {b} :
                            BookIn(b2, "Exact")
                            \/ Round2(book_df[b2]._amount) # Round2(book_df[b]._amount)
                     /\ \A s2 \in BankRows \ {s} :
                            BankIn(s2, "Exact")
                            \/ Round2(bank_df[s2]._amount) # Round2(bank_df[s]._amount) )
                   => Paired(b, s, "Probable")

\* C3 witness: the Probable pass matched a ledger row with the first of two
\* statement rows it could take, and the second one is in bank_only
C3_Witness ==
    /\ Matched
    /\ \E b \in BookRows, s1, s2 \in BankRows :
          /\ s1 < s2
          /\ ProbableCase(b, s1) /\ ProbableCase(b, s2)
          /\ Paired(b, s1, "Probable")
          /\ InFrame(bank_only, s2)

\* one ledger row and one statement row, of equal rounded amount
OnePairOfEqualAmount ==
    /\ Len(book_df) = 1 /\ Len(bank_df) = 1
    /\ Round2(book_df[1]._amount) = Round2(bank_df[1]._amount)

\* the statement row is dated `days` days after the ledger row (before, if < 0)
StatementLater(days) == bank_df[1].Date - book_df[1].Date = Day(days)

\* the window of the Probable pass: matched at exactly 3 days either way, both
\* rows unmatched at exactly 4 days either way
WindowOfThreeDays ==
    /\ ( StatementLater(DATE_PROXIMITY_DAYS) \/ StatementLater(0 - DATE_PROXIMITY_DAYS) )
          => Paired(1, 1, "Probable")
    /\ ( StatementLater(DATE_PROXIMITY_DAYS + 1) \/ StatementLater(0 - (DATE_PROXIMITY_DAYS + 1)) )
          => /\ matched_pairs = << >>
             /\ InFrame(book_only, 1)
             /\ InFrame(bank_only, 1)

\* C4 as stated: a ledger row and a statement row with different references,
\* equal rounded amount and no other candidate rows are matched as Probable
\* when dated exactly 3 days apart, either way, and are both left unmatched
\* when dated 4 days apart, either way.
C4_Original ==
    (Matched /\ OnePairOfEqualAmount
        /\ book_df[1].Reference # bank_df[1].Reference) => WindowOfThreeDays

\* C4 amended: the same, for references that differ once upper-cased (two
\* references that differ only in case are an Exact pair at any distance).
C4_DateWindow ==
    (Matched /\ OnePairOfEqualAmount
        /\ Upper(book_df[1].Reference) # Upper(bank_df[1].Reference)) => WindowOfThreeDays

\* C4 witness: the statement row is dated exactly 3 days before the ledger row,
\* the references differ and the two rows are a Probable pair
C4_Witness ==
    /\ Matched /\ OnePairOfEqualAmount
    /\ Upper(book_df[1].Reference) # Upper(bank_df[1].Reference)
    /\ StatementLater(0 - DATE_PROXIMITY_DAYS)
    /\ Paired(1, 1, "Probable")

\* the sum of the signed amounts of the rows of a frame, from its last row back
RECURSIVE AmountsOf(_)
AmountsOf(df) ==
    IF Len(df) = 0 THEN 0
    ELSE AmountsOf(SubSeq(df, 1, Len(df) - 1)) + df[Len(df)]._amount

\* both sheets are consistent: equal opening balances, and each closing balance
\* is the opening balance plus the signed amounts of the period rows
Consistent ==
    /\ FEq(book_opening, bank_opening)
    /\ FEq(book_closing, FAdd(book_opening, AmountsOf(book_df)))
    /\ FEq(bank_closing, FAdd(bank_opening, AmountsOf(bank_df)))

\* the run reports a reconciled period
ZeroDifference ==
    /\ recon.adjusted_book = recon.adjusted_bank
    /\ recon.difference = 0
    /\ recon.reconciled

\* every matched pair joins two rows of the same signed amount, unrounded
PairsOfSameAmount ==
    \A k \in 1..Len(matched_pairs) :
        book_df[matched_pairs[k].book_idx]._amount
            = bank_df[matched_pairs[k].bank_idx]._amount

\* C5 as stated: when both sheets are consistent, the run ends with
\* adjusted_book = adjusted_bank, difference = 0 and reconciled, whatever the
\* transactions, references and dates and whichever rows the matcher paired.
C5_Original == (Reconciled /\ Consistent) => ZeroDifference

\* C5 amended: when both sheets are consistent and every matched pair joins two
\* rows of exactly the same signed amount (the matcher compares the amounts
\* rounded to the cent), the run ends with adjusted_book = adjusted_bank,
\* difference = 0 and reconciled, whichever rows the matcher paired.
C5_ConsistentReconciles ==
    (Reconciled /\ Consistent /\ PairsOfSameAmount) => ZeroDifference

\* C5 witness: consistent sheets, a pair of rows of the same amount, a row in a
\* bucket of each side, and the run reconciled
C5_Witness ==
    /\ Reconciled /\ Consistent /\ PairsOfSameAmount
    /\ matched_pairs # << >>
    /\ outstanding_cheques # << >>
    /\ bank_credits # << >>
    /\ ZeroDifference

\* the sum of the absolute amounts of the rows of a frame
RECURSIVE AbsAmountsOf(_)
AbsAmountsOf(df) ==
    IF Len(df) = 0 THEN 0
    ELSE AbsAmountsOf(SubSeq(df, 1, Len(df) - 1)) + Abs(df[Len(df)]._amount)

\* C6: adjusted_bank is bank_closing plus the deposits in transit plus the
\* (negative) outstanding cheques, adjusted_book is book_closing plus the bank
\* credits plus the (negative) bank debits: the cheques and the debits lower
\* the balances by their absolute amounts; difference is adjusted_bank minus
\* adjusted_book rounded to 2 decimals, and reconciled says that it is 0.
C6_ReconciliationMath ==
    Reconciled =>
        /\ recon.adjusted_bank =
              FAdd(FAdd(bank_closing, AmountsOf(deposits_in_transit)),
                   AmountsOf(outstanding_cheques))
        /\ recon.adjusted_book =
              FAdd(FAdd(book_closing, AmountsOf(bank_credits)),
                   AmountsOf(bank_debits))
        /\ recon.adjusted_bank =
              FSub(FAdd(bank_closing, AbsAmountsOf(deposits_in_transit)),
                   AbsAmountsOf(outstanding_cheques))
        /\ recon.adjusted_book =
              FSub(FAdd(book_closing, AbsAmountsOf(bank_credits)),
                   AbsAmountsOf(bank_debits))
        /\ recon.difference = Round2(FSub(recon.adjusted_bank, recon.adjusted_book))
        /\ recon.reconciled <=> FEq(recon.difference, 0)

\* C6 witness: two outstanding cheques lower the bank balance, a bank credit
\* raises the book balance
C6_Witness ==
    /\ Reconciled
    /\ Len(outstanding_cheques) = 2
    /\ bank_credits # << >>
    /\ recon.adjusted_bank < bank_closing
    /\ recon.adjusted_book > book_closing

\* the four buckets are empty
NoOpenItems ==
    /\ deposits_in_transit = << >> /\ outstanding_cheques = << >>
    /\ bank_credits = << >> /\ bank_debits = << >>

\* with no open items the adjusted balances are the closing balances
ClosingBalancesKept ==
    NoOpenItems => /\ FEq(recon.adjusted_bank, recon.bank_closing)
                   /\ FEq(recon.adjusted_book, recon.book_closing)
                   /\ FEq(recon.bank_closing, bank_closing)
                   /\ FEq(recon.book_closing, book_closing)

\* C7 as stated: adjusted_bank - adjusted_book is the reported difference
\* exactly, and with four empty buckets the adjusted balances are the closing
\* balances.
C7_Original ==
    Reconciled =>
        /\ recon.adjusted_bank - recon.adjusted_book = recon.difference
        /\ ClosingBalancesKept

\* C7 amended: the reported difference is adjusted_bank - adjusted_book rounded
\* to the cent: a whole number of cents within half a cent of it, and equal to
\* it when it is a whole number of cents; and with four empty buckets the
\* adjusted balances are the closing balances.
C7_DifferenceRounded ==
    Reconciled =>
        /\ LET d == recon.adjusted_bank - recon.adjusted_book
           IN  (~IsNaN(recon.adjusted_bank) /\ ~IsNaN(recon.adjusted_book)) =>
                  /\ recon.difference % MillsPerCent = 0
                  /\ 2 * Abs(d - recon.difference) <= MillsPerCent
                  /\ d % MillsPerCent = 0 => recon.difference = d
        /\ (IsNaN(recon.adjusted_bank) \/ IsNaN(recon.adjusted_book))
              => IsNaN(recon.difference)
        /\ ClosingBalancesKept

\* C7 witness: every row is matched, the four buckets are empty, and the
\* difference of the adjusted balances is a fraction of a cent, reported as 0
C7_Witness ==
    /\ Reconciled
    /\ matched_pairs # << >>
    /\ NoOpenItems
    /\ recon.adjusted_bank # recon.adjusted_book
    /\ recon.difference = 0

\* the labels of the rows of a frame
Labels(df) == {df[k].index : k \in 1..Len(df)}

\* a frame is made of rows of df, each at most once
RowsOf(frame, df) ==
    /\ \A k \in 1..Len(frame) : frame[k] = df[frame[k].index]
    /\ Cardinality(Labels(frame)) = Len(frame)

\* C8: the classifier splits the unmatched rows by sign: an unmatched ledger
\* row is in deposits_in_transit only when its amount is > 0 and in
\* outstanding_cheques only when < 0, an unmatched statement row in
\* bank_credits only when > 0 and in bank_debits only when < 0; a matched row
\* and a row of amount 0 are in no bucket; no row is in a bucket twice, and the
\* ledger buckets hold ledger rows, the statement buckets statement rows.
C8_PartitionBySign ==
    Classified =>
        /\ RowsOf(deposits_in_transit, book_df) /\ RowsOf(outstanding_cheques, book_df)
        /\ RowsOf(bank_credits, bank_df) /\ RowsOf(bank_debits, bank_df)
        /\ \A b \in BookRows :
              /\ b \in Labels(deposits_in_transit)
                    <=> (b \notin book_matched /\ book_df[b]._amount > 0)
              /\ b \in Labels(outstanding_cheques)
                    <=> (b \notin book_matched /\ book_df[b]._amount < 0)
        /\ \A s \in BankRows :
              /\ s \in Labels(bank_credits)
                    <=> (s \notin bank_matched /\ bank_df[s]._amount > 0)
              /\ s \in Labels(bank_debits)
                    <=> (s \notin bank_matched /\ bank_df[s]._amount < 0)
        /\ Labels(deposits_in_transit) \cap Labels(outstanding_cheques) = {}
        /\ Labels(bank_credits) \cap Labels(bank_debits) = {}

\* C8 witness: an unmatched ledger row of amount 0 next to a deposit in
\* transit, and an unmatched statement row in bank_debits
C8_Witness ==
    /\ Classified
    /\ \E b \in BookRows : b \notin book_matched /\ book_df[b]._amount = 0
    /\ deposits_in_transit # << >>
    /\ bank_debits # << >>

\* the transaction row of a sheet of SpecSingle: its last row
LedgerRow == cash_ledger_xlsx.data[Len(cash_ledger_xlsx.data)]

StatementRow == bank_statement_xlsx.data[Len(bank_statement_xlsx.data)]

\* a cell of the sheet holds the amount x > 0
Holds(cell, x) == ~IsNaN(cell) /\ cell = x /\ x > 0

\* the sheets record one inflow of amount x on both sides: ledger Debit x,
\* statement Credit x, the other cell blank, the same reference as written, the
\* same calendar date, the same opening balance (both sheets with their opening
\* row or both without) and the running balance updated by x
SingleInflow(x) ==
    /\ Holds(LedgerRow.Debit, x) /\ IsNaN(LedgerRow.Credit)
    /\ Holds(StatementRow.Credit, x) /\ IsNaN(StatementRow.Debit)
    /\ LedgerRow.Reference = StatementRow.Reference
    /\ Days(LedgerRow.Date) = Days(StatementRow.Date)
    /\ Len(cash_ledger_xlsx.data) = Len(bank_statement_xlsx.data)
    /\ LedgerRow.Balance = StatementRow.Balance
    /\ LedgerRow.Balance = (IF Len(cash_ledger_xlsx.data) = 2 THEN OpeningBal ELSE 0) + x

\* the amounts of the transactions of SpecSingle
SingleAmounts == {6, 10, 14, 24}

\* C9: when the only transaction of the period is one inflow of amount X
\* recorded on both sides with the same reference and date (ledger Debit X,
\* statement Credit X) from the same opening balance, the two rows are matched,
\* the four buckets are empty, and the difference is 0.
C9_SingleInflowRoundTrip ==
    (Reconciled /\ \E x \in SingleAmounts : SingleInflow(x)) =>
        /\ BookRows = {1} /\ BankRows = {1}
        /\ \E type \in {"Exact", "Probable"} : Paired(1, 1, type)
        /\ book_matched = {1} /\ bank_matched = {1}
        /\ NoOpenItems
        /\ recon.difference = 0
        /\ recon.reconciled

\* C9 witness: an inflow of 14 mills on both sides, reconciled
C9_Witness ==
    /\ Reconciled
    /\ SingleInflow(14)
    /\ recon.reconciled

\* a blank cell counts as 0
Cell(c) == IF IsNaN(c) THEN 0 ELSE c

\* the frames are loaded
Loaded == InMatcher \/ Matched

\* C10: every ledger period row carries _amount = Debit - Credit and every
\* statement period row _amount = Credit - Debit, of the cells of its sheet row
\* (a blank cell 0); so a receipt (ledger Debit X, statement Credit X) is +X
\* on both sides and a payment (ledger Credit X, statement Debit X) -X.
C10_SignNormalization ==
    Loaded =>
        /\ BookRows = {1} /\ BankRows = {1}
        /\ book_df[1]._amount = book_df[1].Debit - book_df[1].Credit
        /\ bank_df[1]._amount = bank_df[1].Credit - bank_df[1].Debit
        /\ book_df[1]._amount = Cell(LedgerRow.Debit) - Cell(LedgerRow.Credit)
        /\ bank_df[1]._amount = Cell(StatementRow.Credit) - Cell(StatementRow.Debit)
        /\ \A x \in SingleAmounts :
              /\ (Holds(LedgerRow.Debit, x) /\ IsNaN(LedgerRow.Credit))
                    => book_df[1]._amount = x
              /\ (Holds(StatementRow.Credit, x) /\ IsNaN(StatementRow.Debit))
                    => bank_df[1]._amount = x
              /\ (Holds(LedgerRow.Credit, x) /\ IsNaN(LedgerRow.Debit))
                    => book_df[1]._amount = 0 - x
              /\ (Holds(StatementRow.Debit, x) /\ IsNaN(StatementRow.Credit))
                    => bank_df[1]._amount = 0 - x

\* C10 witness: a payment of 10 mills, ledger Credit and statement Debit, is
\* -10 on both sides
C10_Witness ==
    /\ Loaded
    /\ Holds(LedgerRow.Credit, 10) /\ IsNaN(LedgerRow.Debit)
    /\ Holds(StatementRow.Debit, 10) /\ IsNaN(StatementRow.Credit)
    /\ book_df[1]._amount = 0 - 10
    /\ bank_df[1]._amount = 0 - 10

\* the files are the January 2026 fixture
FixtureRun ==
    /\ cash_ledger_xlsx.data = CashLedgerRows
    /\ bank_statement_xlsx.data = BankStatementRows
    /\ period_start = Day(1) /\ period_end = Day(31)

\* the references and the signed amounts of the rows of a frame, in its order
RefAmounts(df) == [k \in 1..Len(df) |-> <<df[k].Reference, df[k]._amount>>]

\* the references of the rows of a sheet
ReferencesOf(rows) == {rows[k].Reference : k \in 1..Len(rows)}

\* C11: for the January 2026 fixture (CRJ-013, CPJ-015 and PAY-004 only in the
\* ledger, INT-001 and DIRECT-01 only in the statement, every other row on both
\* sides; book closing 1,438,500, bank closing 1,495,500) the run yields
\* deposits_in_transit = [CRJ-013 +500000], outstanding_cheques = [CPJ-015
\* -200000, PAY-004 -360000], bank_credits = [INT-001 +15000], bank_debits =
\* [DIRECT-01 -18000], adjusted_bank = adjusted_book = 1,435,500, difference 0
\* and status RECONCILED.
C11_Fixture ==
    (FixtureRun /\ Reconciled) =>
        /\ ReferencesOf(CashLedgerRows) \ ReferencesOf(BankStatementRows)
              = {"CRJ-013", "CPJ-015", "PAY-004"}
        /\ ReferencesOf(BankStatementRows) \ ReferencesOf(CashLedgerRows)
              = {"INT-001", "DIRECT-01"}
        /\ book_closing = 1438500 /\ bank_closing = 1495500
        /\ RefAmounts(deposits_in_transit) = << <<"CRJ-013", 500000>> >>
        /\ RefAmounts(outstanding_cheques) = << <<"CPJ-015", 0 - 200000>>, <<"PAY-004", 0 - 360000>> >>
        /\ RefAmounts(bank_credits) = << <<"INT-001", 15000>> >>
        /\ RefAmounts(bank_debits) = << <<"DIRECT-01", 0 - 18000>> >>
        /\ recon.adjusted_bank = 1435500
        /\ recon.adjusted_book = 1435500
        /\ recon.difference = 0
        /\ recon.reconciled

\* C11 witness: the run on the fixture is over, its 30 common rows in Exact
\* pairs, no exception recorded
C11_Witness ==
    /\ FixtureRun
    /\ pc = "done"
    /\ Len(matched_pairs) = 30
    /\ PairsOf("Exact") = 1..30
    /\ exceptions = << >>
    /\ output_file = "written"

\* build_adjusting_entries() has returned
Adjusted == pc \in {"write", "done"}

\* the bank-only items in the order of the entries: credits, then debits
BankOnlyItems == bank_credits \o bank_debits

\* the rules of an inflow, in the order of the specification
InflowRules ==
    <<[keywords |-> {"interest"},
       category |-> "Bank Interest Earned",
       dr |-> "Cash at Bank", cr |-> "Interest Income"],
      [keywords |-> {"payment", "collection", "transfer in"},
       category |-> "Direct Credit - Accounts Receivable",
       dr |-> "Cash at Bank", cr |-> "Accounts Receivable"],
      [keywords |-> {},
       category |-> "Bank Credit - Investigate",
       dr |-> "Cash at Bank", cr |-> "Other Income"]>>

\* the rules of an outflow, in the order of the specification
OutflowRules ==
    <<[keywords |-> {"charge", "fee", "service"},
       category |-> "Bank Charges & Fees",
       dr |-> "Bank Charges & Fees", cr |-> "Cash at Bank"],
      [keywords |-> {"insurance"},
       category |-> "Insurance - Auto Debit",
       dr |-> "Insurance Expense", cr |-> "Cash at Bank"],
      [keywords |-> {"subscription", "software", "saas"},
       category |-> "Software / Subscription",
       dr |-> "Telephone & Internet", cr |-> "Cash at Bank"],
      [keywords |-> {"loan", "repayment", "instalment"},
       category |-> "Loan Repayment",
       dr |-> "Long-term Loans", cr |-> "Cash at Bank"],
      [keywords |-> {"dishonour", "nsf", "returned", "bounce"},
       category |-> "Dishonoured Cheque",
       dr |-> "Accounts Receivable", cr |-> "Cash at Bank"],
      [keywords |-> {},
       category |-> "Direct Debit - Investigate",
       dr |-> "Non-Operating Expense", cr |-> "Cash at Bank"]>>

\* a rule applies to a description when one of its keywords is in it, whatever
\* the case of the letters; the last rule of a direction has no keyword and
\* applies to every description
Applies(rule, description) ==
    \/ rule.keywords = {}
    \/ \E keyword \in rule.keywords :
          \E i \in 1..Len(description) :
              /\ i + Len(keyword) - 1 <= Len(description)
              /\ Lower(SubSeq(description, i, i + Len(keyword) - 1)) = keyword

\* the first rule that applies
FirstRule(rules, description) ==
    rules[CHOOSE k \in 1..Len(rules) :
             /\ Applies(rules[k], description)
             /\ \A j \in 1..(k - 1) : ~Applies(rules[j], description)]

\* the rules an item is tested against
RulesOf(item) == IF item._amount > 0 THEN InflowRules ELSE OutflowRules

\* the number of rules of its direction with a keyword in the description
RulesHit(item) ==
    Cardinality({k \in 1..Len(RulesOf(item)) :
                    /\ RulesOf(item)[k].keywords # {}
                    /\ Applies(RulesOf(item)[k], item.Description)})

\* C12: every bank-only item gets the category and the two accounts of the
\* first rule, in the order of the specification for its direction (inflow:
\* interest; payment / collection / transfer in; else Investigate; outflow:
\* charge / fee / service; insurance; subscription / software / saas; loan /
\* repayment / instalment; dishonour / nsf / returned / bounce; else
\* Investigate), that has a keyword in the description, letters compared
\* without case.
C12_FirstRuleWins ==
    Adjusted =>
        /\ Len(adjusting_entries) = Len(BankOnlyItems)
        /\ \A k \in 1..Len(adjusting_entries) :
              LET rule == FirstRule(RulesOf(BankOnlyItems[k]), BankOnlyItems[k].Description)
              IN  /\ adjusting_entries[k].category = rule.category
                  /\ adjusting_entries[k].dr_account = rule.dr
                  /\ adjusting_entries[k].cr_account = rule.cr

\* C12 witness: an outflow described "Insurance FEE", with keywords of the
\* first two outflow rules, is put under bank charges
C12_Witness ==
    /\ Adjusted
    /\ \E k \in 1..Len(adjusting_entries) :
          /\ BankOnlyItems[k].Description = "Insurance FEE"
          /\ BankOnlyItems[k]._amount < 0
          /\ RulesHit(BankOnlyItems[k]) = 2
          /\ adjusting_entries[k].category = "Bank Charges & Fees"

\* C13: a bank-only outflow described "Software subscription (auto-debit)" is
\* classified "Software / Subscription", debit Telephone & Internet, credit
\* Cash at Bank.
C13_SoftwareSubscription ==
    Adjusted =>
        \A k \in 1..Len(bank_debits) :
            bank_debits[k].Description = "Software subscription (auto-debit)" =>
                LET e == adjusting_entries[Len(bank_credits) + k]
                IN  /\ e.description = "Software subscription (auto-debit)"
                    /\ e.category = "Software / Subscription"
                    /\ e.dr_account = "Telephone & Internet"
                    /\ e.cr_account = "Cash at Bank"

\* C13 witness: the outflow DD-01 "Software subscription (auto-debit)" is
\* bank-only and has its entry
C13_Witness ==
    /\ pc = "done"
    /\ \E k \in 1..Len(bank_debits) :
          /\ bank_debits[k].Description = "Software subscription (auto-debit)"
          /\ bank_debits[k]._amount = 0 - 10
    /\ \E j \in 1..Len(adjusting_entries) :
          adjusting_entries[j].category = "Software / Subscription"

\* the sum of the debit amounts and of the credit amounts of the entries
RECURSIVE SumOf(_, _)
SumOf(entries, side) ==
    IF Len(entries) = 0 THEN 0
    ELSE SumOf(SubSeq(entries, 1, Len(entries) - 1), side)
         + (IF side = "dr" THEN entries[Len(entries)].dr_amount
                           ELSE entries[Len(entries)].cr_amount)

\* C14: every entry carries dr_amount = cr_amount = the absolute amount of its
\* bank-only item, > 0, with Cash at Bank debited for an inflow and credited
\* for an outflow; so the debits and the credits proposed have the same total
\* and the Double-Entry Check of the Adjusting Entries sheet is PASS.
C14_EntriesBalanced ==
    /\ Adjusted =>
          /\ \A k \in 1..Len(adjusting_entries) :
                LET e == adjusting_entries[k]
                    item == BankOnlyItems[k]
                IN  /\ e.dr_amount = e.cr_amount
                    /\ e.dr_amount = Abs(item._amount)
                    /\ e.dr_amount > 0
                    /\ item._amount > 0 => (e.dr_account = "Cash at Bank"
                                            /\ e.cr_account # "Cash at Bank")
                    /\ item._amount < 0 => (e.cr_account = "Cash at Bank"
                                            /\ e.dr_account # "Cash at Bank")
          /\ SumOf(adjusting_entries, "dr") = SumOf(adjusting_entries, "cr")
    /\ pc = "done" =>
          /\ wb.adjusting_entries.rows = adjusting_entries
          /\ wb.adjusting_entries.total_dr = SumOf(adjusting_entries, "dr")
          /\ wb.adjusting_entries.total_cr = SumOf(adjusting_entries, "cr")
          /\ wb.adjusting_entries.double_entry_check = "PASS"

\* C14 witness: the workbook holds an entry of an inflow and one of an outflow
C14_Witness ==
    /\ pc = "done"
    /\ bank_credits # << >> /\ bank_debits # << >>
    /\ Len(wb.adjusting_entries.rows) = 2
    /\ wb.adjusting_entries.total_dr = 20
    /\ wb.adjusting_entries.double_entry_check = "PASS"

\* C15: build_adjusting_entries makes one entry per row of bank_credits and of
\* bank_debits, with the date, reference and description of its row, and no
\* other: as many entries as bank-only items, none for a matched statement
\* row, a ledger row or a statement row of amount 0.
C15_OneEntryPerItem ==
    Adjusted =>
        /\ Len(adjusting_entries) = Len(bank_credits) + Len(bank_debits)
        /\ \A k \in 1..Len(adjusting_entries) :
              /\ adjusting_entries[k].date = BankOnlyItems[k].Date
              /\ adjusting_entries[k].reference = BankOnlyItems[k].Reference
              /\ adjusting_entries[k].description = BankOnlyItems[k].Description
        /\ \A s \in BankRows :
              Cardinality({k \in 1..Len(adjusting_entries) :
                              /\ adjusting_entries[k].reference = bank_df[s].Reference
                              /\ adjusting_entries[k].description = bank_df[s].Description})
                 = IF s \notin bank_matched /\ bank_df[s]._amount # 0 THEN 1 ELSE 0
        /\ \A k \in 1..Len(adjusting_entries) :
              /\ BankOnlyItems[k] = bank_df[BankOnlyItems[k].index]
              /\ \A b \in BookRows :
                    adjusting_entries[k].description # book_df[b].Description

\* C15 witness: a matched statement row, a statement row of amount 0 and a
\* ledger row without partner next to one bank-only item with its entry
C15_Witness ==
    /\ Adjusted
    /\ Len(adjusting_entries) = 1
    /\ \/ bank_matched # {}
       \/ book_only # << >>
    /\ \E s \in BankRows : s \notin bank_matched /\ bank_df[s]._amount = 0

\* load_cash_ledger() has returned its three results
BookLoaded == book_opening # None

\* load_bank_statement() has returned its three results
BankLoaded == bank_opening # None

\* the positions of the sheet rows dated before a bound, the bound included
\* or not
Upto(data, bound, included) ==
    {i \in 1..Len(data) : data[i].Date < bound \/ (included /\ data[i].Date = bound)}

\* the last position of a non-empty set of positions
Last(positions) == CHOOSE i \in positions : \A j \in positions : j <= i

\* the opening balance the sheet stands for: the Balance of its last row
\* dated strictly before period_start, 0 without such a row
OpeningOf(data) ==
    LET before == Upto(data, period_start, FALSE)
    IN  IF before = {} THEN 0 ELSE data[Last(before)].Balance

\* C16: the opening balance of each loader is the Balance of the last sheet
\* row, in row order, dated strictly before period_start, and 0 when the
\* sheet has no such row; a row dated period_start never supplies it.
C16_OpeningBalance ==
    /\ BookLoaded => book_opening = OpeningOf(cash_ledger_xlsx.data)
    /\ BankLoaded => bank_opening = OpeningOf(bank_statement_xlsx.data)

\* C16 witness: the ledger has a row before period_start followed by a row
\* dated period_start; the first supplies the opening balance. The statement
\* side has no row before period_start and opens at 0.
C16_Witness ==
    /\ BookLoaded /\ BankLoaded
    /\ Len(cash_ledger_xlsx.data) = 2
    /\ cash_ledger_xlsx.data[1].Date < period_start
    /\ cash_ledger_xlsx.data[2].Date = period_start
    /\ book_opening = cash_ledger_xlsx.data[1].Balance
    /\ book_opening # cash_ledger_xlsx.data[2].Balance
    /\ bank_statement_xlsx.data # << >>
    /\ bank_opening = 0

\* the closing balance the sheet stands for: the Balance of its last row
\* dated at or before period_end, the opening balance without such a row
ClosingOf(data) ==
    LET upto == Upto(data, period_end, TRUE)
    IN  IF upto = {} THEN OpeningOf(data) ELSE data[Last(upto)].Balance

\* C17: the closing balance of each loader is the Balance of the last sheet
\* row, in row order, dated at or before period_end, whether or not the row
\* is dated before period_start or carries the opening balance marker; it is
\* the opening balance when the sheet has no such row.
C17_ClosingBalance ==
    /\ BookLoaded => book_closing = ClosingOf(cash_ledger_xlsx.data)
    /\ BankLoaded => bank_closing = ClosingOf(bank_statement_xlsx.data)

\* C17 witness: the statement has a row dated period_end followed by a row
\* before period_start that carries the marker OB: the second supplies the
\* opening and the closing balance. The ledger side is empty and closes at
\* its opening balance 0.
C17_Witness ==
    /\ BookLoaded /\ BankLoaded
    /\ Len(bank_statement_xlsx.data) = 2
    /\ bank_statement_xlsx.data[1].Date = period_end
    /\ bank_statement_xlsx.data[2].Date < period_start
    /\ bank_statement_xlsx.data[2].Reference = "OB"
    /\ bank_closing = bank_statement_xlsx.data[2].Balance
    /\ cash_ledger_xlsx.data = << >>
    /\ book_closing = 0

\* the sheet rows dated inside the period, both bounds included, whose
\* reference, as written in the cell or stripped of the blanks around it, is
\* not the opening balance marker
PeriodRowsOf(data, stripped) ==
    SelectSeq(data, LAMBDA r :
        /\ period_start <= r.Date /\ r.Date <= period_end
        /\ (IF stripped THEN Strip(r.Reference) ELSE r.Reference) # "OB")

\* the frame holds the given sheet rows, in their order
HoldsRows(df, rows) ==
    /\ Len(df) = Len(rows)
    /\ \A i \in 1..Len(rows) :
          /\ df[i].Date = rows[i].Date
          /\ df[i].Reference = Strip(rows[i].Reference)
          /\ df[i].Balance = rows[i].Balance

\* a row of a frame is dated inside the period and is not marked OB
PeriodRow(r) ==
    /\ period_start <= r.Date /\ r.Date <= period_end
    /\ r.Reference # "OB"

\* every row of the frame is a period row
PeriodRows(frame) == \A k \in 1..Len(frame) : PeriodRow(frame[k])

\* no row marked OB and no row dated outside the period is in a matched pair,
\* in book_only / bank_only or in a bucket
OnlyPeriodRowsUsed ==
    /\ (InMatcher \/ Matched) =>
          \A k \in 1..Len(matched_pairs) :
              /\ matched_pairs[k].book_idx \in BookRows
              /\ matched_pairs[k].bank_idx \in BankRows
              /\ PeriodRow(book_df[matched_pairs[k].book_idx])
              /\ PeriodRow(bank_df[matched_pairs[k].bank_idx])
    /\ Matched =>
          /\ RowsOf(book_only, book_df) /\ PeriodRows(book_only)
          /\ RowsOf(bank_only, bank_df) /\ PeriodRows(bank_only)
    /\ Classified =>
          /\ PeriodRows(deposits_in_transit) /\ PeriodRows(outstanding_cheques)
          /\ PeriodRows(bank_credits) /\ PeriodRows(bank_debits)

\* C18 as stated, with the reference compared as it is written in the sheet:
\* the period rows of each loader are the sheet rows with period_start <= date
\* <= period_end whose reference is not "OB", in sheet order.
C18_Original ==
    /\ BookLoaded => HoldsRows(book_df, PeriodRowsOf(cash_ledger_xlsx.data, FALSE))
    /\ BankLoaded => HoldsRows(bank_df, PeriodRowsOf(bank_statement_xlsx.data, FALSE))

\* C18: the period rows of each loader are the sheet rows with period_start <=
\* date <= period_end (both bounds included) whose reference, stripped of the
\* blanks around it, is not "OB", in sheet order; no row marked OB and no row
\* dated outside the period is in a matched pair, in book_only / bank_only or
\* in one of the four buckets.
C18_PeriodRows ==
    /\ BookLoaded => HoldsRows(book_df, PeriodRowsOf(cash_ledger_xlsx.data, TRUE))
    /\ BankLoaded => HoldsRows(bank_df, PeriodRowsOf(bank_statement_xlsx.data, TRUE))
    /\ OnlyPeriodRowsUsed

\* C18 witness: a ledger with a row marked " OB " dated period_start and a
\* row dated period_end, of which only the second is a period row, matched
\* with the statement row
C18_Witness ==
    /\ Classified
    /\ Len(cash_ledger_xlsx.data) = 2
    /\ cash_ledger_xlsx.data[1].Date = period_start
    /\ cash_ledger_xlsx.data[1].Reference = " OB "
    /\ cash_ledger_xlsx.data[2].Date = period_end
    /\ Len(book_df) = 1
    /\ Len(matched_pairs) = 1

\* the headers of a file that stand for a canonical column: the header that
\* reads, blanks and case apart, as the column's name or as one of its aliases
HeadersFor(file, canonical) ==
    {i \in 1..Len(file.columns) :
        \/ normalize_column(file.columns[i]) = Lower(canonical)
        \/ \E k \in 1..Len(COLUMN_ALIASES(Lower(canonical))) :
              normalize_column(file.columns[i]) = COLUMN_ALIASES(Lower(canonical))[k]}

\* the names a header may read for a canonical column: the column's name in
\* small letters and its aliases
NamesOf(canonical) ==
    {Lower(canonical)}
    \cup {COLUMN_ALIASES(Lower(canonical))[k] : k \in 1..Len(COLUMN_ALIASES(Lower(canonical)))}

\* the columns load_cash_ledger and load_bank_statement require
BookRequired == {"Date", "Reference", "Description", "Debit", "Credit", "Balance"}

BankRequired == {"Date", "Reference", "Description", "Balance"}

\* the names a header may read for each required column
RequiredNames == [canonical \in BookRequired |-> NamesOf(canonical)]

\* the file can be read and lacks one of the required columns after alias
\* resolution
Lacks(file, required) ==
    /\ file.exists /\ file.readable
    /\ \E normalized \in {{normalize_column(file.columns[i]) : i \in 1..Len(file.columns)}} :
          \E canonical \in required : RequiredNames[canonical] \cap normalized = {}

\* the result has no part but the error
NoPartialResult(r) ==
    /\ r.error # "None"
    /\ r.period_df = None /\ r.opening_balance = None /\ r.closing_balance = None

\* C19: when a source lacks a required column after alias resolution, its
\* loader returns an error that carries the list of the columns found in the
\* file, and None for the period rows, the opening balance and the closing
\* balance; main() prints that error and keeps no result of the source. A
\* file whose headers are names or aliases of all required columns loads.
C19_MissingColumn ==
    /\ IF Lacks(cash_ledger_xlsx, BookRequired)
       THEN \A r \in {load_cash_ledger(cash_ledger_xlsx, period_start, period_end)} :
                /\ NoPartialResult(r)
                /\ \A found \in {ListStr(cash_ledger_xlsx.columns)} : In(found, r.error)
                /\ pc # "load_book" =>
                      /\ stdout = <<"  ERROR: " \o r.error>>
                      /\ book_opening = None /\ book_closing = None
                      /\ book_df = None
       ELSE (cash_ledger_xlsx.exists /\ cash_ledger_xlsx.readable) =>
                IF pc = "load_book"
                THEN load_cash_ledger(cash_ledger_xlsx, period_start, period_end).error
                        = "None"
                ELSE BookLoaded
    /\ IF Lacks(bank_statement_xlsx, BankRequired)
       THEN \A r \in {load_bank_statement(bank_statement_xlsx, period_start, period_end)} :
                /\ NoPartialResult(r)
                /\ \A found \in {ListStr(bank_statement_xlsx.columns)} : In(found, r.error)
                /\ (BookLoaded /\ pc # "load_bank") =>
                      /\ stdout = <<"  ERROR: " \o r.error>>
                      /\ bank_opening = None /\ bank_closing = None
                      /\ bank_df = None
       ELSE (bank_statement_xlsx.exists /\ bank_statement_xlsx.readable) =>
                IF pc = "load_book"
                THEN load_bank_statement(bank_statement_xlsx, period_start, period_end).error
                        = "None"
                ELSE (BookLoaded /\ pc # "load_bank") => BankLoaded

\* C19 witness: the statement has headers Trans Date, Memo, Debit, Credit,
\* Balance, Amount and no Reference column; the ledger is loaded, the
\* statement is not, and the printed error lists the six headers
C19_Witness ==
    /\ pc = "exit"
    /\ BookLoaded
    /\ Lacks(bank_statement_xlsx, BankRequired)
    /\ HeadersFor(bank_statement_xlsx, "Reference") = {}
    /\ HeadersFor(bank_statement_xlsx, "Date") # {}
    /\ bank_opening = None
    /\ Len(stdout) = 1
    /\ In("['Trans Date', 'Memo', 'Debit', 'Credit', 'Balance', 'Amount']", stdout[1])

\* the file is missing, or lacks a required column
Fails(file, required) == ~file.exists \/ Lacks(file, required)

\* the line main() prints for the file
ErrorPrinted(file, line) ==
    /\ In("ERROR: ", line)
    /\ IF ~file.exists THEN In("File not found: " \o file.path, line)
                       ELSE In("Missing required columns: ", line)

\* C20: if a source file is missing or lacks a required column, main() prints
\* the error and exits with status 1 at the first load that fails: the
\* statement is not loaded after a failed ledger, match_transactions, the
\* classifiers, build_reconciliation and build_adjusting_entries never run,
\* the directory of the output file is not made and no output file is written.
\* The output file is written only as the last step of a run whose two loads
\* succeeded.
C20_FailFast ==
    /\ (Fails(cash_ledger_xlsx, BookRequired) \/ Fails(bank_statement_xlsx, BankRequired)) =>
          /\ pc \in {"load_book", "load_bank", "exit"}
          /\ pc = "load_bank" => ~Fails(cash_ledger_xlsx, BookRequired)
          /\ matched_pairs = None /\ book_only = None /\ bank_only = None
          /\ deposits_in_transit = None /\ outstanding_cheques = None
          /\ bank_credits = None /\ bank_debits = None
          /\ recon = None /\ adjusting_entries = None /\ wb = None
          /\ output_dir = "absent" /\ output_file = "absent"
          /\ IF pc = "exit"
             THEN /\ exit_status = 1
                  /\ Len(stdout) = 1
                  /\ IF Fails(cash_ledger_xlsx, BookRequired)
                     THEN /\ ErrorPrinted(cash_ledger_xlsx, stdout[1])
                          /\ ~BookLoaded /\ ~BankLoaded
                     ELSE /\ ErrorPrinted(bank_statement_xlsx, stdout[1])
                          /\ BookLoaded /\ ~BankLoaded
             ELSE exit_status = None /\ stdout = << >>
    /\ (output_file = "written" \/ output_dir = "created") =>
          /\ pc = "done"
          /\ BookLoaded /\ BankLoaded
          /\ stdout = << >>
          /\ exit_status = 0

\* C20 witness: the ledger file is missing: the run has exited with status 1
\* at the first load, the statement, a sheet with rows, was never loaded
C20_Witness ==
    /\ pc = "exit"
    /\ ~cash_ledger_xlsx.exists
    /\ bank_statement_xlsx.data # << >>
    /\ exit_status = 1
    /\ stdout = <<"  ERROR: File not found: cash_ledger.xlsx">>
    /\ ~BankLoaded
    /\ output_file = "absent"

\* the seven sheets every workbook has
SevenSheets ==
    <<"Dashboard", "Reconciliation", "Matched Items", "Outstanding Cheques",
      "Deposits in Transit", "Bank-Only Items", "Adjusting Entries">>

\* main() has returned after save_workbook(): the file is written with its
\* seven sheets and the status banner, the exit status is 0
Completed ==
    /\ pc = "done"
    /\ output_file = "written"
    /\ exit_status = 0
    /\ SubSeq(wb.sheets, 1, 7) = SevenSheets
    /\ wb.dashboard.status = (IF recon.reconciled THEN "RECONCILED" ELSE "NOT RECONCILED")
    /\ wb.dashboard.difference = recon.difference
    /\ wb.adjusting_entries.rows = adjusting_entries

\* the statements of main() still ahead, and inside a pass of the matcher the
\* turns of its outer loop still ahead
Ahead ==
    << CASE pc = "load_book"     -> 10
         [] pc = "load_bank"     -> 9
         [] pc = "check_opening" -> 8
         [] pc = "pass1"         -> 7
         [] pc = "pass2"         -> 6
         [] pc = "classify"      -> 5
         [] pc = "reconcile"     -> 4
         [] pc = "adjust"        -> 3
         [] pc = "write"         -> 2
         [] OTHER                -> 0,
       IF pc \in {"pass1", "pass2"} THEN Len(book_df) + 1 - bi ELSE 0 >>

\* C21: whenever both sources load without error the run terminates with the
\* output file written and exit status 0, reconciled or not; a difference other
\* than 0 shows only as NOT RECONCILED inside the workbook, it changes no exit
\* status and leaves no sheet out.  Termination: after the loads a next
\* statement of main() can always be taken until main() returns, and every
\* step lessens what is Ahead, so a scheduled run reaches the return.
C21_AlwaysCompletes ==
    /\ []((BookLoaded /\ BankLoaded /\ pc # "done") => ENABLED AfterLoad)
    /\ [][\/ Ahead'[1] < Ahead[1]
          \/ Ahead'[1] = Ahead[1] /\ Ahead'[2] < Ahead[2] /\ Ahead'[2] >= 0]_<<pc, bi>>
    /\ [](pc = "done" => Completed)
    /\ []((BookLoaded /\ BankLoaded) => (pc # "exit" /\ exit_status \in {None, 0}))

\* C21 witness: a run that is not reconciled has ended with status 0 and the
\* workbook written, NOT RECONCILED on its Dashboard
C21_Witness ==
    /\ pc = "done"
    /\ ~recon.reconciled
    /\ recon.difference # 0
    /\ exit_status = 0
    /\ output_file = "written"
    /\ wb.dashboard.status = "NOT RECONCILED"
    /\ Len(wb.sheets) = 8

\* a ledger row and a statement row satisfy the condition of a pass
Fits(type, b, s) ==
    /\ FEq(Round2(b._amount), Round2(s._amount))
    /\ IF type = "Exact"
       THEN Upper(b.Reference) = Upper(s.Reference)
       ELSE Abs((b.Date - s.Date) \div TicksPerDay) <= 3

\* one pass over the ledger rows from row b on: a ledger row without pair
\* takes the first statement row without pair that fits
RECURSIVE GreedyPass(_, _, _, _, _)
GreedyPass(b, book, bank, type, pairs) ==
    IF b > Len(book) THEN pairs
    ELSE LET free == {s \in 1..Len(bank) :
                         /\ \A k \in 1..Len(pairs) : pairs[k].bank_idx # s
                         /\ Fits(type, book[b], bank[s])}
         IN  IF free = {} \/ \E k \in 1..Len(pairs) : pairs[k].book_idx = b
             THEN GreedyPass(b + 1, book, bank, type, pairs)
             ELSE GreedyPass(b + 1, book, bank, type,
                             Append(pairs, [book_idx |-> b, bank_idx |-> Last(free \ {s \in free : \E t \in free : t < s}),
                                            match_type |-> type]))

\* the pairs two frames of period rows give: the Exact pass, then the
\* Probable pass over what it left
PairsFrom(book, bank) ==
    GreedyPass(1, book, bank, "Probable", GreedyPass(1, book, bank, "Exact", << >>))

\* the rows of a frame that are in no pair, of positive or of negative amount
Leftover(df, side, pairs, sign) ==
    SelectSeq(df, LAMBDA r :
        /\ \A k \in 1..Len(pairs) :
              (IF side = "book" THEN pairs[k].book_idx ELSE pairs[k].bank_idx) # r.index
        /\ ~IsNaN(r._amount)
        /\ IF sign > 0 THEN r._amount > 0 ELSE r._amount < 0)

\* the sum of the amounts of a frame
RECURSIVE SumOfAmounts(_)
SumOfAmounts(df) ==
    IF Len(df) = 0 THEN 0
    ELSE SumOfAmounts(SubSeq(df, 1, Len(df) - 1)) + df[Len(df)]._amount

\* the pairs, the buckets, the adjusted balances and the difference are the
\* ones the period rows and the closing balances give: nothing else enters
ResultsFromRowsAndClosings ==
    \A pairs \in {PairsFrom(book_df, bank_df)} :
        /\ matched_pairs = pairs
        /\ deposits_in_transit = Leftover(book_df, "book", pairs, 1)
        /\ outstanding_cheques = Leftover(book_df, "book", pairs, 0 - 1)
        /\ bank_credits = Leftover(bank_df, "bank", pairs, 1)
        /\ bank_debits = Leftover(bank_df, "bank", pairs, 0 - 1)
        /\ recon.adjusted_bank
              = FAdd(bank_closing, SumOfAmounts(deposits_in_transit)
                                   + SumOfAmounts(outstanding_cheques))
        /\ recon.adjusted_book
              = FAdd(book_closing, SumOfAmounts(bank_credits)
                                   + SumOfAmounts(bank_debits))
        /\ recon.difference = Round2(FSub(recon.adjusted_bank, recon.adjusted_book))

\* the opening balance warnings in a list of exceptions
OpeningWarnings(exc) ==
    Cardinality({k \in 1..Len(exc) : exc[k] = "Opening balances differ"})

\* the two opening balances differ once rounded to 2 decimals
OpeningsDiffer == Round2(book_opening) # Round2(bank_opening)

\* C22: when the opening balances of the two sources differ once rounded to
\* 2 decimals the run records exactly one opening balance warning (none when
\* they agree once rounded) and goes on to its end; the pairs, the buckets,
\* the adjusted balances and the difference are those the period rows and the
\* closing balances give, whatever the opening balances.
C22_OpeningMismatch ==
    /\ (InMatcher \/ Matched) =>
          /\ OpeningWarnings(exceptions) = (IF OpeningsDiffer THEN 1 ELSE 0)
          /\ exit_status \in {None, 0}
          /\ ENABLED AfterLoad \/ pc = "done"
    /\ Reconciled => ResultsFromRowsAndClosings
    /\ pc = "done" =>
          /\ OpeningWarnings(wb.dashboard.exceptions) = (IF OpeningsDiffer THEN 1 ELSE 0)
          /\ OpeningsDiffer => wb.sheets[Len(wb.sheets)] = "Exceptions"

\* C22 witness: opening balances 0.014 and 0.020, one warning, the ledger row
\* matched with the statement row all the same, and the workbook written
C22_Witness ==
    /\ pc = "done"
    /\ book_opening = 14 /\ bank_opening = 20
    /\ exceptions = <<"Opening balances differ", "Reconciliation failed">>
    /\ Len(matched_pairs) = 1
    /\ wb.dashboard.exceptions = exceptions
    /\ exit_status = 0

\* the workbook has an Exceptions sheet
HasExceptionsSheet == \E k \in 1..Len(wb.sheets) : wb.sheets[k] = "Exceptions"

\* the reconciliation failure entries in a list of exceptions
FailureEntries(exc) ==
    Cardinality({k \in 1..Len(exc) : exc[k] = "Reconciliation failed"})

\* C23: the Exceptions sheet is written exactly when the run recorded an
\* exception; an exception is an opening balance warning, recorded only when
\* the opening balances differ, or a reconciliation failure, recorded exactly
\* when reconciled is false, that is when the difference is not 0; a run
\* with equal opening balances and difference 0 writes no Exceptions sheet.
C23_ExceptionsSection ==
    /\ \A k \in 1..Len(exceptions) :
          exceptions[k] \in {"Opening balances differ", "Reconciliation failed"}
    /\ OpeningWarnings(exceptions) > 0 => book_opening # bank_opening
    /\ Reconciled =>
          /\ FailureEntries(exceptions) = (IF recon.reconciled THEN 0 ELSE 1)
          /\ recon.reconciled <=> recon.difference = 0
    /\ ~Reconciled => FailureEntries(exceptions) = 0
    /\ pc = "done" =>
          /\ HasExceptionsSheet <=> exceptions # << >>
          /\ HasExceptionsSheet => wb.exceptions = exceptions
          /\ (book_opening = bank_opening /\ recon.difference = 0) => ~HasExceptionsSheet

\* C23 witness: opening balances that agree once rounded and a difference:
\* the failure is the one exception and the workbook has the Exceptions sheet
C23_Witness ==
    /\ pc = "done"
    /\ ~OpeningsDiffer
    /\ recon.difference # 0
    /\ exceptions = <<"Reconciliation failed">>
    /\ wb.sheets[8] = "Exceptions"

\* a run with equal opening balances and difference 0 has written its
\* workbook without Exceptions sheet
C23_NoExceptions ==
    /\ pc = "done"
    /\ book_opening = bank_opening
    /\ recon.difference = 0
    /\ Len(matched_pairs) = 1
    /\ wb.sheets = SevenSheets

\* the values of a run that its input files and period bounds determine
OutcomeOfInputs ==
    /\ BookLoaded =>
          /\ HoldsRows(book_df, PeriodRowsOf(cash_ledger_xlsx.data, TRUE))
          /\ book_closing = ClosingOf(cash_ledger_xlsx.data)
    /\ BankLoaded =>
          /\ HoldsRows(bank_df, PeriodRowsOf(bank_statement_xlsx.data, TRUE))
          /\ bank_closing = ClosingOf(bank_statement_xlsx.data)
    /\ Matched => matched_pairs = PairsFrom(book_df, bank_df)
    /\ Classified =>
          \A pairs \in {PairsFrom(book_df, bank_df)} :
              /\ deposits_in_transit = Leftover(book_df, "book", pairs, 1)
              /\ outstanding_cheques = Leftover(book_df, "book", pairs, 0 - 1)
              /\ bank_credits = Leftover(bank_df, "bank", pairs, 1)
              /\ bank_debits = Leftover(bank_df, "bank", pairs, 0 - 1)
    /\ Reconciled =>
          /\ recon.book_closing = book_closing
          /\ recon.bank_closing = bank_closing
          /\ recon.adjusted_bank
                = FAdd(bank_closing, SumOfAmounts(deposits_in_transit)
                                     + SumOfAmounts(outstanding_cheques))
          /\ recon.adjusted_book
                = FAdd(book_closing, SumOfAmounts(bank_credits)
                                     + SumOfAmounts(bank_debits))
          /\ recon.difference = Round2(FSub(recon.adjusted_bank, recon.adjusted_book))

\* C24: the matched pairs (indices, match types, order), the contents of the
\* four buckets and the closing, adjusted and difference values of a run are
\* functions of the ledger rows, the statement rows and the period bounds, in
\* their order: two runs on the same inputs end with the same values.
C24_Deterministic == OutcomeOfInputs

\* C24 witness: a ledger row that two statement rows fit has taken the first
\* of them, and the run has ended
C24_Witness ==
    /\ pc = "done"
    /\ Len(book_df) = 1 /\ Len(bank_df) = 2
    /\ Fits("Probable", book_df[1], bank_df[1])
    /\ Fits("Probable", book_df[1], bank_df[2])
    /\ ~Fits("Exact", book_df[1], bank_df[1])
    /\ matched_pairs = <<[book_idx |-> 1, bank_idx |-> 1, match_type |-> "Probable"]>>
    /\ Len(bank_debits) + Len(bank_credits) = 1

\* no cell of the three numeric columns of a frame is NaN, and neither is
\* the signed amount of a row
NumericFrame(df) ==
    \A i \in 1..Len(df) :
        /\ ~IsNaN(df[i].Debit) /\ ~IsNaN(df[i].Credit) /\ ~IsNaN(df[i].Balance)
        /\ ~IsNaN(df[i]._amount)

\* C25: in both loaders a blank or non-numeric cell of Debit, Credit and
\* Balance is coerced to 0, also when the statement has no Debit and Credit
\* columns: every period row has a numeric signed amount, and the opening
\* and closing balances are numbers. The loaders leave a blank Balance cell
\* NaN and an absent Debit or Credit column NaN in every row.
C25_NumericColumns ==
    /\ BookLoaded =>
          /\ NumericFrame(book_df)
          /\ ~IsNaN(book_opening) /\ ~IsNaN(book_closing)
    /\ BankLoaded =>
          /\ NumericFrame(bank_df)
          /\ ~IsNaN(bank_opening) /\ ~IsNaN(bank_closing)

\* the ledger rows alone have numeric Debit and Credit cells and amounts
C25_LedgerAmounts ==
    BookLoaded => \A i \in 1..Len(book_df) :
                     /\ ~IsNaN(book_df[i].Debit) /\ ~IsNaN(book_df[i].Credit)
                     /\ book_df[i]._amount = book_df[i].Debit - book_df[i].Credit

\* C25 witness: a statement without Debit and Credit columns has a period
\* row whose amount is NaN; the row pairs with nothing and is in no bucket
C25_Witness ==
    /\ pc = "done"
    /\ bank_statement_xlsx.columns = HeadersWithoutAmounts
    /\ Len(bank_df) = 1 /\ IsNaN(bank_df[1]._amount)
    /\ ~IsNaN(bank_closing)
    /\ Len(book_df) = 1 /\ matched_pairs = << >>
    /\ bank_credits = << >> /\ bank_debits = << >>

\* a blank Balance cell in the last row of the ledger: the closing balance
\* and the difference are NaN
C25_BlankBalance ==
    /\ pc = "done"
    /\ IsNaN(book_closing) /\ ~IsNaN(book_opening)
    /\ IsNaN(recon.difference)
    /\ ~recon.reconciled

\* pair k joins its ledger row with the first statement row, in statement
\* order, that fits the pass of the pair and that no earlier pair holds
LowestFree(k) ==
    LET p == matched_pairs[k]
    IN  /\ Fits(p.match_type, book_df[p.book_idx], bank_df[p.bank_idx])
        /\ \A s \in 1..(p.bank_idx - 1) :
              Fits(p.match_type, book_df[p.book_idx], bank_df[s])
                  => \E j \in 1..(k - 1) : matched_pairs[j].bank_idx = s

\* the pairs of one pass are in ledger order
InLedgerOrder ==
    \A j, k \in 1..Len(matched_pairs) :
        (j < k /\ matched_pairs[j].match_type = matched_pairs[k].match_type)
            => matched_pairs[j].book_idx < matched_pairs[k].book_idx

\* a step of the run keeps the pairs made so far, in their places
PairsKept ==
    (InMatcher \/ Matched) =>
        /\ Len(matched_pairs') >= Len(matched_pairs)
        /\ SubSeq(matched_pairs', 1, Len(matched_pairs)) = matched_pairs

\* C26: matching is greedy first-fit without backtracking: in each pass the
\* ledger rows are taken in ledger order and a ledger row is paired with the
\* first statement row, in statement order, that is still free and fits the
\* pass, whatever the dates of the later candidates; a pair once made is
\* never undone or changed by a later step.
C26_GreedyFirstFit ==
    /\ []((InMatcher \/ Matched) =>
            /\ \A k \in 1..Len(matched_pairs) : LowestFree(k)
            /\ InLedgerOrder)
    /\ [](Matched => matched_pairs = PairsFrom(book_df, bank_df))
    /\ [][PairsKept]_<<pc, bi>>

\* C26 witness: two statement rows fit the ledger row in pass 2, the first
\* dated 3 days from it and the second 1 day; the first is taken
C26_Witness ==
    /\ pc = "done"
    /\ Len(book_df) = 1 /\ Len(bank_df) = 2
    /\ Abs(Days(book_df[1].Date - bank_df[1].Date)) = 3
    /\ Abs(Days(book_df[1].Date - bank_df[2].Date)) = 1
    /\ ~Fits("Exact", book_df[1], bank_df[1])
    /\ ~Fits("Exact", book_df[1], bank_df[2])
    /\ matched_pairs = <<[book_idx |-> 1, bank_idx |-> 1, match_type |-> "Probable"]>>
    /\ Len(bank_only) = 1 /\ bank_only[1].index = 2

\* the pairs a step appends
Appended == {k \in 1..Len(matched_pairs') : k > Len(matched_pairs)}

\* pass 1 appends Exact pairs only and hands over to pass 2 once it has
\* visited every ledger row; pass 2 appends Probable pairs only and pass 1
\* never runs again
PassesInTurn ==
    /\ pc = "pass1" =>
          /\ \A k \in Appended : matched_pairs'[k].match_type = "Exact"
          /\ pc' \in {"pass1", "pass2"}
          /\ pc' = "pass2" => bi > Len(book_df)
    /\ pc = "pass2" =>
          /\ \A k \in Appended : matched_pairs'[k].match_type = "Probable"
          /\ pc' \in {"pass2", "classify"}
    /\ Matched => pc' \notin {"pass1", "pass2"}

\* C27: pass 1 runs over all the ledger rows before pass 2 starts, so every
\* Exact pair precedes every Probable pair in matched_pairs; and no Probable
\* pair joins a ledger row and a statement row whose upper-cased references
\* are equal.
C27_ExactFirst ==
    /\ []((InMatcher \/ Matched) =>
            /\ \A j, k \in 1..Len(matched_pairs) :
                  (matched_pairs[j].match_type = "Probable"
                   /\ matched_pairs[k].match_type = "Exact") => k < j
            /\ \A k \in PairsOf("Probable") :
                  Upper(book_df[matched_pairs[k].book_idx].Reference)
                      # Upper(bank_df[matched_pairs[k].bank_idx].Reference)
            /\ pc = "pass1" => PairsOf("Probable") = {})
    /\ [][PassesInTurn]_<<pc, bi>>

\* C27 witness: the second ledger row has its Exact pair, made in pass 1,
\* ahead of the Probable pair of the first ledger row, made in pass 2
C27_Witness ==
    /\ pc = "done"
    /\ Len(matched_pairs) = 2
    /\ matched_pairs[1].match_type = "Exact" /\ matched_pairs[1].book_idx = 2
    /\ matched_pairs[2].match_type = "Probable" /\ matched_pairs[2].book_idx = 1
    /\ book_df[2].Reference # bank_df[matched_pairs[1].bank_idx].Reference

\* the rounded amounts of a ledger row and a statement row are equal
SameRoundedAmount(b, s) == FEq(Round2(b._amount), Round2(s._amount))

\* the dates of two rows are at most 3 days apart
AtMost3DaysApart(b, s) == Abs(b.Date - s.Date) <= 3 * TicksPerDay

\* C28: when match_transactions has returned, no row of book_only and row of
\* bank_only have equal upper-cased references and equal rounded amounts,
\* and none have equal rounded amounts and dates at most 3 days apart.
C28_Maximal ==
    Matched =>
        \A i \in 1..Len(book_only), j \in 1..Len(bank_only) :
            /\ ~(/\ Upper(book_only[i].Reference) = Upper(bank_only[j].Reference)
                 /\ SameRoundedAmount(book_only[i], bank_only[j]))
            /\ ~(/\ SameRoundedAmount(book_only[i], bank_only[j])
                 /\ AtMost3DaysApart(book_only[i], bank_only[j]))

\* C28 witness: one pair made, and a ledger row and a statement row left
\* over that have equal rounded amounts but are dated 4 days apart and carry
\* different references
C28_Witness ==
    /\ pc = "classify"
    /\ Len(matched_pairs) = 1
    /\ Len(book_only) = 1 /\ Len(bank_only) = 1
    /\ SameRoundedAmount(book_only[1], bank_only[1])
    /\ Abs(book_only[1].Date - bank_only[1].Date) = 4 * TicksPerDay
    /\ Upper(book_only[1].Reference) # Upper(bank_only[1].Reference)

\* the ledger row and the statement row of pair k
BookRowOf(k) == book_df[matched_pairs[k].book_idx]

BankRowOf(k) == bank_df[matched_pairs[k].bank_idx]

\* the sum of the amounts of the matched rows of a side over the first n
\* pairs, as they are or rounded to 2 decimals
RECURSIVE MatchedSum(_, _, _)
MatchedSum(side, rounded, n) ==
    IF n = 0 THEN 0
    ELSE LET r == IF side = "book" THEN BookRowOf(n) ELSE BankRowOf(n)
         IN  MatchedSum(side, rounded, n - 1)
             + (IF rounded THEN Round2(r._amount) ELSE r._amount)

\* the two amounts have the same sign
SameSign(x, y) == (x > 0 /\ y > 0) \/ (x < 0 /\ y < 0) \/ (x = 0 /\ y = 0)

\* every pair joins two rows of equal rounded amounts
PairsOfSameRoundedAmount ==
    \A k \in 1..Len(matched_pairs) : SameRoundedAmount(BookRowOf(k), BankRowOf(k))

\* C29 as stated: every pair joins rows of equal rounded amounts, hence of
\* the same sign, and the signed amounts of the matched ledger rows and of
\* the matched statement rows have the same sum.
C29_Original ==
    (InMatcher \/ Matched) =>
        /\ PairsOfSameRoundedAmount
        /\ \A k \in 1..Len(matched_pairs) :
              SameSign(BookRowOf(k)._amount, BankRowOf(k)._amount)
        /\ MatchedSum("book", FALSE, Len(matched_pairs))
              = MatchedSum("bank", FALSE, Len(matched_pairs))

\* C29 amended: every pair, Exact or Probable, joins rows of equal rounded
\* amounts, of the same sign unless both round to 0.00; the rounded amounts
\* of the matched ledger rows and of the matched statement rows have the
\* same sum; the amounts as they are have the same sum when every matched
\* amount is its rounded value, and sums no more than a cent a pair apart
\* otherwise.
C29_EqualRoundedAmounts ==
    (InMatcher \/ Matched) =>
        /\ PairsOfSameRoundedAmount
        /\ \A k \in 1..Len(matched_pairs) :
              \/ SameSign(BookRowOf(k)._amount, BankRowOf(k)._amount)
              \/ Round2(BookRowOf(k)._amount) = 0
        /\ MatchedSum("book", TRUE, Len(matched_pairs))
              = MatchedSum("bank", TRUE, Len(matched_pairs))
        /\ (\A k \in 1..Len(matched_pairs) :
               /\ BookRowOf(k)._amount = Round2(BookRowOf(k)._amount)
               /\ BankRowOf(k)._amount = Round2(BankRowOf(k)._amount))
              => MatchedSum("book", FALSE, Len(matched_pairs))
                    = MatchedSum("bank", FALSE, Len(matched_pairs))
        /\ Abs(MatchedSum("book", FALSE, Len(matched_pairs))
               - MatchedSum("bank", FALSE, Len(matched_pairs)))
              <= Len(matched_pairs) * MillsPerCent

\* C29 witness: a ledger receipt of 0.004 paired with a statement withdrawal
\* of 0.004, both 0.00 once rounded, and a receipt of 0.014 paired with a
\* deposit of 0.006
C29_Witness ==
    /\ pc = "done"
    /\ Len(matched_pairs) = 2
    /\ \E j, k \in 1..2 :
          /\ BookRowOf(j)._amount = 4 /\ BankRowOf(j)._amount = 0 - 4
          /\ BookRowOf(k)._amount = 14 /\ BankRowOf(k)._amount = 6
    /\ MatchedSum("book", FALSE, 2) = 18
    /\ MatchedSum("bank", FALSE, 2) = 2

\* the pairs that hold row i of a side
PairsHolding(side, i) ==
    {k \in 1..Len(matched_pairs) :
        (IF side = "book" THEN matched_pairs[k].book_idx
                          ELSE matched_pairs[k].bank_idx) = i}

\* the places of row i of a frame in a frame of leftovers
PlacesIn(only, i) == {k \in 1..Len(only) : only[k].index = i}

\* every row of the frame is in one pair or once among the leftovers, never
\* both, and the leftovers are rows of the frame, in its order
Conserved(side, df, only) ==
    /\ \A i \in 1..Len(df) :
          Cardinality(PairsHolding(side, i)) + Cardinality(PlacesIn(only, i)) = 1
    /\ \A k \in 1..Len(only) :
          only[k].index \in 1..Len(df) /\ only[k] = df[only[k].index]
    /\ \A j, k \in 1..Len(only) : j < k => only[j].index < only[k].index
    /\ \A k \in 1..Len(matched_pairs) :
          (IF side = "book" THEN matched_pairs[k].book_idx
                            ELSE matched_pairs[k].bank_idx) \in 1..Len(df)
    /\ Len(matched_pairs) + Len(only) = Len(df)

\* C30: match_transactions drops and duplicates nothing: every ledger period
\* row is the book side of exactly one pair or is in book_only, never both,
\* and every statement period row likewise with bank_only; the number of
\* pairs plus the length of book_only is the number of ledger rows, and
\* plus the length of bank_only the number of statement rows.
C30_RowsConserved ==
    Matched => /\ Conserved("book", book_df, book_only)
               /\ Conserved("bank", bank_df, bank_only)

\* C30 witness: two rows a side, one pair, one row left over on each side
C30_Witness ==
    /\ pc = "classify"
    /\ Len(book_df) = 2 /\ Len(bank_df) = 2
    /\ Len(matched_pairs) = 1
    /\ Len(book_only) = 1 /\ Len(bank_only) = 1
    /\ matched_pairs[1].book_idx = 2 /\ book_only[1].index = 1
    /\ matched_pairs[1].bank_idx = 2 /\ bank_only[1].index = 1

====
